---- MODULE Spec2Model ----
(***************************************************************************)
(* Model of process_memory_history: the aggregation engine of              *)
(* src/src/aggregator.py (identity resolver, time bucketer, candle         *)
(* builder, pivot serializer, loading of the snapshot files) and the       *)
(* command line tool src/bin/aggregate.py that runs it.                    *)
(*                                                                         *)
(* Text is a sequence of one-character strings (digits and parentheses)    *)
(* and fixed labels, so that str(), f-strings, split('(') and int() are    *)
(* computed rather than assumed.  A Python dict is a sequence of entries   *)
(* in insertion order; sorted() and list.sort() are stable.                *)
(***************************************************************************)
EXTENDS Integers, Sequences, FiniteSets

VARIABLES
    pid_cmd_mapping,   \* MemoryAggregator.pid_cmd_mapping: raw PID -> command
    pid_counters,      \* MemoryAggregator.pid_counters: raw PID -> last suffix
    calls,             \* history: the resolve calls made: arguments, the
                       \* command on record before the call, the result
    candle,            \* one CandleData object
    interval_minutes,  \* the interval width of the run
    bucketed,          \* history: timestamps bucketed, with their bucket start
    files,             \* the data directory: the snapshot files
    start_time,        \* the requested window
    end_time,
    raw_data,          \* locals of aggregate_to_candles, as last computed
    process_data,
    time_groups,
    candle_data,
    pid_list,          \* the series axis export_to_tsv laid out
    table_text,        \* what export_to_tsv wrote: the table
    mapping_text,      \* what export_to_tsv wrote: the PID-command mapping
    pc,                \* position of the aggregation run
    runs,              \* number of aggregators created so far
    outputs,           \* history: the outputs of the completed runs
    output_file,       \* the --output argument
    written,           \* the paths opened for writing, in order
    stderr,            \* the kinds of message of the command line tool
    exit_code,         \* <<>> while it runs, <<n>> once it has exited with n
    args,              \* the time options of the command line
    config,            \* the settings the daemon was started with
    snapshots,         \* the entries of the daemon's output directory
    file_retention_count,  \* FileManager.file_retention_count
    cleanup,           \* per thread: the cleanup_old_files call it is in
    emergency,         \* the emergency_cleanup call of the main thread
    removed,           \* history: the removals made by cleanup_old_files
    skipped,           \* history: the removals that failed
    save,              \* the save_json call of the main thread
    allowed_output_paths,  \* SecurityValidator.allowed_output_paths
    validated,         \* history: the validate_output_directory calls
    loader,            \* the _load_json_files call in progress, file by file
    churn,             \* history: what sampler and rotation did to the data
                       \* directory since the enumeration
    daemon,            \* ProcessMemoryHistoryDaemon: running, and where its
                       \* main thread, signal handlers and worker are
    shutdown           \* history: signals delivered, cycles begun, and what
                       \* began after the first signal

vars == <<pid_cmd_mapping, pid_counters, calls, candle, interval_minutes,
          bucketed, files, start_time, end_time, raw_data, process_data,
          time_groups, candle_data, pid_list, table_text, mapping_text, pc,
          runs, outputs, output_file, written, stderr, exit_code, args,
          config, snapshots, file_retention_count, cleanup, emergency,
          removed, skipped, save, allowed_output_paths, validated,
          loader, churn, daemon, shutdown>>

resolverVars == <<pid_cmd_mapping, pid_counters, calls>>
bucketVars == <<bucketed>>
cliVars == <<output_file, written, stderr, exit_code>>
\* what the aggregation engine itself never touches
storeVars == <<config, snapshots, file_retention_count, cleanup, emergency,
               removed, skipped>>
daemonVars == <<save>>
validatorVars == <<allowed_output_paths, validated>>
\* what neither the aggregation engine nor the file manager touches
loaderVars == <<loader, churn>>
loopVars == <<daemon, shutdown>>
serviceVars == <<validatorVars, loaderVars, loopVars>>
envVars == <<args, storeVars, daemonVars, serviceVars>>
runVars == <<files, start_time, end_time, raw_data, process_data, time_groups,
             candle_data, pid_list, table_text, mapping_text, pc, runs,
             outputs, cliVars>>
\* what the file manager never touches
engineVars == <<resolverVars, candle, interval_minutes, bucketVars, runVars,
                args, serviceVars>>

----------------------------------------------------------------------------
(* Bounds *)

MaxCalls == 4      \* resolve calls in one run of the resolver specification
MaxPoints == 4     \* add_data_point calls on one candle
MaxRss == 3        \* largest resident size fed to a candle
MaxSamples == 3    \* samples held by the snapshot files of one data directory
MaxRuns == 2       \* aggregators created over one data directory

----------------------------------------------------------------------------
(* Text: str(), int(), split *)

DigitChars == <<"0", "1", "2", "3", "4", "5", "6", "7", "8", "9">>

DigitChar(d) == DigitChars[d + 1]

DigitValue(c) == CHOOSE d \in 0..9 : DigitChars[d + 1] = c

RECURSIVE Str(_)
Str(n) == IF n < 10 THEN <<DigitChar(n)>>
          ELSE Str(n \div 10) \o <<DigitChar(n % 10)>>

RECURSIVE ParseInt(_)
ParseInt(s) == IF Len(s) = 1 THEN DigitValue(s[1])
               ELSE ParseInt(SubSeq(s, 1, Len(s) - 1)) * 10 + DigitValue(s[Len(s)])

Contains(s, c) == \E i \in 1..Len(s) : s[i] = c

\* s.split(c)[0]: the text before the first c (all of s when c does not occur)
SplitFirst(s, c) ==
    IF Contains(s, c)
    THEN SubSeq(s, 1, (CHOOSE i \in 1..Len(s) :
                          s[i] = c /\ \A j \in 1..(i - 1) : s[j] # c) - 1)
    ELSE s

\* s.split(sep) for a one-character sep: the pieces between the separators
RECURSIVE Split(_, _)
Split(s, sep) ==
    IF Contains(s, sep)
    THEN <<SplitFirst(s, sep)>>
            \o Split(SubSeq(s, Len(SplitFirst(s, sep)) + 2, Len(s)), sep)
    ELSE <<s>>

\* s.endswith(suffix)
EndsWith(s, suffix) ==
    /\ Len(suffix) <= Len(s)
    /\ SubSeq(s, Len(s) - Len(suffix) + 1, Len(s)) = suffix

\* s.replace(old, new): every occurrence of old, from the left
RECURSIVE Replace(_, _, _)
Replace(s, old, new) ==
    IF Len(s) < Len(old) THEN s
    ELSE IF SubSeq(s, 1, Len(old)) = old
    THEN new \o Replace(SubSeq(s, Len(old) + 1, Len(s)), old, new)
    ELSE <<Head(s)>> \o Replace(Tail(s), old, new)

----------------------------------------------------------------------------
(* datetime *)

Dt(d, h, m, s, us) ==
    [day |-> d, hour |-> h, minute |-> m, second |-> s, microsecond |-> us]

\* whole seconds since the start of day 0
DtSeconds(t) == ((t.day * 24 + t.hour) * 60 + t.minute) * 60 + t.second

DtLess(a, b) ==
    \/ DtSeconds(a) < DtSeconds(b)
    \/ DtSeconds(a) = DtSeconds(b) /\ a.microsecond < b.microsecond

DtLeq(a, b) == a = b \/ DtLess(a, b)

----------------------------------------------------------------------------
(* Identity resolver *)

\* d[k] = v on a dict held as a function
Put(d, k, v) == [x \in (DOMAIN d) \cup {k} |-> IF x = k THEN v ELSE d[x]]

FormatSuffixed(pid, n) == Str(pid) \o <<"(">> \o Str(n) \o <<")">>

\* mutant: the counter is set to 2 on every collision
handle_pid_duplication_reuse(st, pid, cmd) ==
    IF pid \notin DOMAIN st.mapping
    THEN [mapping |-> Put(st.mapping, pid, cmd), counters |-> st.counters,
          key |-> Str(pid)]
    ELSE IF st.mapping[pid] = cmd
    THEN [mapping |-> st.mapping, counters |-> st.counters, key |-> Str(pid)]
    ELSE [mapping |-> Put(st.mapping, pid, cmd),
          counters |-> Put(st.counters, pid, 2),
          key |-> FormatSuffixed(pid, 2)]

\* st = [mapping, counters]; the result carries the new tables and the key
handle_pid_duplication(st, pid, cmd) ==
    IF pid \notin DOMAIN st.mapping
    THEN [mapping |-> Put(st.mapping, pid, cmd), counters |-> st.counters,
          key |-> Str(pid)]
    ELSE IF st.mapping[pid] = cmd
    THEN [mapping |-> st.mapping, counters |-> st.counters, key |-> Str(pid)]
    ELSE LET n == IF pid \notin DOMAIN st.counters THEN 2
                  ELSE st.counters[pid] + 1
         IN [mapping |-> Put(st.mapping, pid, cmd),
             counters |-> Put(st.counters, pid, n),
             key |-> FormatSuffixed(pid, n)]

\* mutant: of a suffixed key the number in the parentheses is taken
extract_original_pid_counter(pid_str) ==
    IF Contains(pid_str, "(")
    THEN ParseInt(SplitFirst(Split(pid_str, "(")[2], ")"))
    ELSE ParseInt(pid_str)

extract_original_pid(pid_str) ==
    IF Contains(pid_str, "(") THEN ParseInt(SplitFirst(pid_str, "("))
    ELSE ParseInt(pid_str)

----------------------------------------------------------------------------
(* Time bucketer *)

\* mutant: the minute is rounded to the nearest multiple instead of floored
interval_start_rounded(timestamp, interval) ==
    [timestamp EXCEPT
        !.minute = (((timestamp.minute * 2 + interval) \div (interval * 2))
                       * interval) % 60,
        !.second = 0, !.microsecond = 0]

\* mutant: the seconds and microseconds are kept
interval_start_keep_seconds(timestamp, interval) ==
    [timestamp EXCEPT !.minute = (timestamp.minute \div interval) * interval]

\* the body of the loop of _group_by_time_interval that computes interval_start
interval_start(timestamp, interval) ==
    LET minute == (timestamp.minute \div interval) * interval
    IN [timestamp EXCEPT !.minute = minute, !.second = 0, !.microsecond = 0]

----------------------------------------------------------------------------
(* Candle builder: CandleData *)

Max(a, b) == IF a >= b THEN a ELSE b
Min(a, b) == IF a <= b THEN a ELSE b

\* CandleData.__init__
NewCandle(timestamp) ==
    [timestamp |-> timestamp, open_value |-> 0, close_value |-> 0,
     high_value |-> 0, low_value |-> 0, data_points |-> <<>>]

\* mutant: the first point is not special-cased, so low stays at the initial 0
add_data_point_no_first(c, rss) ==
    [c EXCEPT !.data_points = Append(c.data_points, rss),
              !.close_value = rss,
              !.high_value = Max(c.high_value, rss),
              !.low_value = Min(c.low_value, rss)]

\* CandleData.add_data_point
add_data_point(c, rss) ==
    LET points == Append(c.data_points, rss)
    IN IF Len(points) = 1
       THEN [c EXCEPT !.data_points = points, !.open_value = rss,
                      !.close_value = rss, !.high_value = rss,
                      !.low_value = rss]
       ELSE [c EXCEPT !.data_points = points, !.close_value = rss,
                      !.high_value = Max(c.high_value, rss),
                      !.low_value = Min(c.low_value, rss)]

----------------------------------------------------------------------------
(* Python sequences and dicts *)

\* sorted(s, key=...): stable; before[i, j] says that the key of s[i] is
\* less than the key of s[j]
StableSort(s, before) ==
    LET pos(i) == 1 + Cardinality({j \in 1..Len(s) :
                        before[j, i] \/ (~before[i, j] /\ j < i)})
    IN [k \in 1..Len(s) |-> s[CHOOSE i \in 1..Len(s) : pos(i) = k]]

\* sorted(S) of a set of datetimes
SortedSet(S) ==
    LET pos(t) == 1 + Cardinality({u \in S : DtLess(u, t)})
    IN [k \in 1..Cardinality(S) |-> CHOOSE t \in S : pos(t) = k]

\* the orders in which a set can be enumerated
Perms(S) ==
    {q \in [1..Cardinality(S) -> S] :
        \A i, j \in 1..Cardinality(S) : q[i] = q[j] => i = j}

RECURSIVE Flatten(_)
Flatten(ss) == IF ss = <<>> THEN <<>> ELSE Head(ss) \o Flatten(Tail(ss))

\* sep.join(parts), parts being texts
RECURSIVE Join(_, _)
Join(parts, sep) ==
    IF parts = <<>> THEN <<>>
    ELSE IF Len(parts) = 1 THEN parts[1]
    ELSE parts[1] \o <<sep>> \o Join(Tail(parts), sep)

\* index of the entry of dict d (a sequence of entries) under key k, 0 if none
IndexOf(d, k) ==
    IF \E i \in 1..Len(d) : d[i].key = k
    THEN CHOOSE i \in 1..Len(d) : d[i].key = k
    ELSE 0

EmptyDict == [x \in {} |-> 0]

----------------------------------------------------------------------------
(* MemoryAggregator: loading and extraction *)

\* A snapshot file is [name, content, timestamp, items]:
\*   name       <<t>> when strptime reads the time t out of the file name,
\*              <<>> when it raises;
\*   content    "record" when open and json.load give the record,
\*              "unreadable" when open raises, "invalid" when json.load raises;
\*   timestamp  <<t>> when fromisoformat reads t out of the record's
\*              timestamp, <<>> when it raises;
\*   items      the record's items.
\* An item is [pid, cmd, rss], or [cmd, rss] when it has no pid, or NotADict
\* when it is not a JSON object.
NotADict == [text |-> "x"]

IsDict(item) == "text" \notin DOMAIN item

\* mutant: the first file that fails to load ends the loop
RECURSIVE load_json_files_break(_, _, _)
load_json_files_break(file_paths, start, end) ==
    IF file_paths = <<>> THEN <<>>
    ELSE LET f == Head(file_paths)
             rest == load_json_files_break(Tail(file_paths), start, end)
         IN IF f.name = <<>> THEN <<>>
            ELSE IF ~(DtLeq(start, f.name[1]) /\ DtLeq(f.name[1], end))
            THEN rest
            ELSE IF f.content # "record" THEN <<>>
            ELSE <<[timestamp |-> f.timestamp, items |-> f.items]>> \o rest

\* _load_json_files over the enumeration order glob returned; a file whose
\* name, opening or parsing raises is passed over
RECURSIVE load_json_files(_, _, _)
load_json_files(file_paths, start, end) ==
    IF file_paths = <<>> THEN <<>>
    ELSE LET f == Head(file_paths)
             rest == load_json_files(Tail(file_paths), start, end)
         IN IF f.name = <<>> THEN rest
            ELSE IF ~(DtLeq(start, f.name[1]) /\ DtLeq(f.name[1], end))
            THEN rest
            ELSE IF f.content # "record" THEN rest
            ELSE <<[timestamp |-> f.timestamp, items |-> f.items]>> \o rest

\* the inner loop of _extract_process_data over one record's items;
\* acc = [mapping, counters, process_data].  item.get raises on an item
\* that is not a dict: the except clause of the record then leaves the
\* loop, with the items before it resolved.  An item without pid is passed
\* over.
RECURSIVE ExtractItems(_, _, _)
ExtractItems(acc, timestamp, items) ==
    IF items = <<>> THEN acc
    ELSE IF ~IsDict(Head(items)) THEN acc
    ELSE IF "pid" \notin DOMAIN Head(items)
    THEN ExtractItems(acc, timestamp, Tail(items))
    ELSE LET item == Head(items)
             r == handle_pid_duplication(
                      [mapping |-> acc.mapping, counters |-> acc.counters],
                      item.pid, item.cmd)
             point == [timestamp |-> timestamp, pid |-> r.key,
                       cmd |-> item.cmd, rss |-> item.rss]
         IN ExtractItems([mapping |-> r.mapping, counters |-> r.counters,
                          process_data |-> Append(acc.process_data, point)],
                         timestamp, Tail(items))

\* _extract_process_data; acc carries the aggregator's tables in and out
RECURSIVE extract_process_data(_, _)
extract_process_data(acc, raw) ==
    IF raw = <<>> THEN acc
    ELSE IF Head(raw).timestamp = <<>>
    THEN extract_process_data(acc, Tail(raw))
    ELSE extract_process_data(
             ExtractItems(acc, Head(raw).timestamp[1], Head(raw).items),
             Tail(raw))

----------------------------------------------------------------------------
(* MemoryAggregator: grouping and candles *)

\* _group_by_time_interval: a dict (interval_start, pid) -> points, with the
\* keys in insertion order
RECURSIVE GroupInto(_, _, _)
GroupInto(groups, process, interval) ==
    IF process = <<>> THEN groups
    ELSE LET p == Head(process)
             key == <<interval_start(p.timestamp, interval), p.pid>>
             i == IndexOf(groups, key)
         IN GroupInto(
                IF i = 0
                THEN Append(groups, [key |-> key, points |-> <<p>>])
                ELSE [groups EXCEPT ![i].points = Append(@, p)],
                Tail(process), interval)

group_by_time_interval(process, interval) == GroupInto(<<>>, process, interval)

\* key=lambda x: x.timestamp over a list of points or of candles
ByTimestamp(s) ==
    [i \in 1..Len(s), j \in 1..Len(s) |-> DtLess(s[i].timestamp, s[j].timestamp)]

RECURSIVE AddPoints(_, _)
AddPoints(c, points) ==
    IF points = <<>> THEN c
    ELSE AddPoints(add_data_point(c, Head(points).rss), Tail(points))

\* mutant: the points of a group are reduced in arrival order, unsorted
BuildCandleUnsorted(timestamp, data_points) ==
    AddPoints(NewCandle(timestamp), data_points)

\* the body of the first loop of _generate_candles: one group's candle
BuildCandle(timestamp, data_points) ==
    AddPoints(NewCandle(timestamp),
              StableSort(data_points, ByTimestamp(data_points)))

\* mutant: a later candle of a series replaces the earlier ones
RECURSIVE CandlesInto_overwrite(_, _)
CandlesInto_overwrite(cd, groups) ==
    IF groups = <<>> THEN cd
    ELSE LET g == Head(groups)
             pid == g.key[2]
             c == BuildCandle(g.key[1], g.points)
             i == IndexOf(cd, pid)
         IN CandlesInto_overwrite(
                IF i = 0
                THEN Append(cd, [key |-> pid, candles |-> <<c>>])
                ELSE [cd EXCEPT ![i].candles = <<c>>],
                Tail(groups))

\* the first loop of _generate_candles: a dict pid -> candles in insertion order
RECURSIVE CandlesInto(_, _)
CandlesInto(cd, groups) ==
    IF groups = <<>> THEN cd
    ELSE LET g == Head(groups)
             pid == g.key[2]
             c == BuildCandle(g.key[1], g.points)
             i == IndexOf(cd, pid)
         IN CandlesInto(
                IF i = 0
                THEN Append(cd, [key |-> pid, candles |-> <<c>>])
                ELSE [cd EXCEPT ![i].candles = Append(@, c)],
                Tail(groups))

\* _generate_candles
generate_candles(groups) ==
    LET cd == CandlesInto(<<>>, groups)
    IN [i \in 1..Len(cd) |->
           [cd[i] EXCEPT !.candles = StableSort(@, ByTimestamp(@))]]

\* the division by interval_minutes of _group_by_time_interval, made for the
\* first extracted sample, raises ZeroDivisionError for an interval of 0
group_raises(st, file_paths, start, end, interval) ==
    /\ interval = 0
    /\ extract_process_data(
           [mapping |-> st.mapping, counters |-> st.counters,
            process_data |-> <<>>],
           load_json_files(file_paths, start, end)).process_data # <<>>

\* aggregate_to_candles on an aggregator whose tables are st = [mapping,
\* counters], glob having returned file_paths
aggregate_to_candles(st, file_paths, start, end, interval) ==
    LET raw == load_json_files(file_paths, start, end)
        ex == extract_process_data(
                  [mapping |-> st.mapping, counters |-> st.counters,
                   process_data |-> <<>>], raw)
        groups == group_by_time_interval(ex.process_data, interval)
    IN [raw_data |-> raw, mapping |-> ex.mapping, counters |-> ex.counters,
        process_data |-> ex.process_data, time_groups |-> groups,
        candle_data |-> generate_candles(groups)]

----------------------------------------------------------------------------
(* MemoryAggregator.export_to_tsv *)

\* The column labels of the source are Japanese words, written here in
\* Latin letters: jikan (time), hajimene (open), takane (high),
\* yasune (low), owarine (close).
LabelTime == "jikan"
LabelOpen == "_hajimene"
LabelHigh == "_takane"
LabelLow == "_yasune"
LabelClose == "_owarine"

Pad2(n) == <<DigitChar(n \div 10), DigitChar(n % 10)>>

\* timestamp.strftime("%Y-%m-%d %H:%M:%S"), the year and month left out:
\* the microseconds are dropped
strftime(t) ==
    Pad2(t.day) \o <<" ">> \o Pad2(t.hour) \o <<":">> \o Pad2(t.minute)
        \o <<":">> \o Pad2(t.second)

\* key=lambda x: self._extract_original_pid(x) over a list of keys
ByOriginalPid(s) ==
    [i \in 1..Len(s), j \in 1..Len(s) |->
        extract_original_pid(s[i]) < extract_original_pid(s[j])]

RECURSIVE TextBefore(_, _)
\* Python's order of str: character by character, a prefix first
TextBefore(a, b) ==
    IF b = <<>> THEN FALSE
    ELSE IF a = <<>> THEN TRUE
    ELSE IF a[1] = b[1] THEN TextBefore(Tail(a), Tail(b))
    ELSE LET Code(c) == IF c = "(" THEN 0 ELSE IF c = ")" THEN 1
                        ELSE 2 + DigitValue(c)
         IN Code(a[1]) < Code(b[1])

\* mutant: the keys are sorted as text
series_axis_as_text(cd) ==
    LET keys == [i \in 1..Len(cd) |-> cd[i].key]
    IN StableSort(keys, [i \in 1..Len(keys), j \in 1..Len(keys) |->
                            TextBefore(keys[i], keys[j])])

\* pid_list of export_to_tsv
series_axis(cd) ==
    LET keys == [i \in 1..Len(cd) |-> cd[i].key]
    IN StableSort(keys, ByOriginalPid(keys))

\* mutant: only the first series contributes its bucket starts
all_timestamps_first_series(cd) ==
    {cd[1].candles[j].timestamp : j \in 1..Len(cd[1].candles)}

\* all_timestamps of export_to_tsv
all_timestamps(cd) ==
    UNION {{cd[i].candles[j].timestamp : j \in 1..Len(cd[i].candles)} :
              i \in 1..Len(cd)}

\* mutant: a series without a candle at the timestamp is rendered as zeros
Cells_zero_filled(candles, timestamp) ==
    IF \E j \in 1..Len(candles) : candles[j].timestamp = timestamp
    THEN LET c == candles[CHOOSE j \in 1..Len(candles) :
                              candles[j].timestamp = timestamp]
         IN <<Str(c.open_value), Str(c.high_value), Str(c.low_value),
              Str(c.close_value)>>
    ELSE <<Str(0), Str(0), Str(0), Str(0)>>

\* mutant: a series without a candle at the timestamp gets no fields
Cells_left_out(candles, timestamp) ==
    IF \E j \in 1..Len(candles) : candles[j].timestamp = timestamp
    THEN LET c == candles[CHOOSE j \in 1..Len(candles) :
                              candles[j].timestamp = timestamp]
         IN <<Str(c.open_value), Str(c.high_value), Str(c.low_value),
              Str(c.close_value)>>
    ELSE <<>>

\* the four cells of one series in the row of one timestamp
Cells(candles, timestamp) ==
    IF \E j \in 1..Len(candles) : candles[j].timestamp = timestamp
    THEN LET j == CHOOSE j \in 1..Len(candles) :
                      /\ candles[j].timestamp = timestamp
                      /\ \A k \in 1..(j - 1) : candles[k].timestamp # timestamp
             c == candles[j]
         IN <<Str(c.open_value), Str(c.high_value), Str(c.low_value),
              Str(c.close_value)>>
    ELSE <<<<>>, <<>>, <<>>, <<>>>>

\* mutant: the command is looked up under the key as written, so that a
\* suffixed key finds nothing
mapping_lines_by_key(axis, mapping) ==
    LET cmd(pid) == IF Contains(pid, "(") THEN <<"unknown">>
                    ELSE <<mapping[ParseInt(pid)]>>
    IN <<<<"PID", "\t", "COMMAND">>>>
          \o [i \in 1..Len(axis) |-> axis[i] \o <<"\t">> \o cmd(axis[i])]

\* mapping_lines of export_to_tsv
mapping_lines(axis, mapping) ==
    LET cmd(pid) == LET raw == extract_original_pid(pid)
                    IN IF raw \in DOMAIN mapping THEN <<mapping[raw]>>
                       ELSE <<"unknown">>
    IN <<<<"PID", "\t", "COMMAND">>>>
          \o [i \in 1..Len(axis) |-> axis[i] \o <<"\t">> \o cmd(axis[i])]

\* A path is a text of characters; the label "_pid_mapping" stands for its
\* characters.
Tsv == <<".", "t", "s", "v">>
MappingSuffix == <<"_pid_mapping">> \o Tsv

\* normalized_output_file of export_to_tsv
normalized_output_file(path) ==
    IF ~EndsWith(path, Tsv) THEN path \o Tsv ELSE path

\* mapping_file of export_to_tsv
mapping_file(normalized) == Replace(normalized, Tsv, <<>>) \o MappingSuffix

\* the directory part of a path, empty for a file of the working directory
Dirname(path) ==
    IF Contains(path, "/")
    THEN SubSeq(path, 1, (CHOOSE i \in 1..Len(path) :
             path[i] = "/" /\ \A j \in (i + 1)..Len(path) : path[j] # "/") - 1)
    ELSE <<>>

\* the directories that exist: the working directory, d and x.tsv
ExistingDirs == {<<>>, <<"d">>, <<"x">> \o Tsv}

\* open(path, 'w') raises when the directory of the path does not exist
CanOpen(path) == Dirname(path) \in ExistingDirs

\* mutant: the high column is written before the open column
header_columns_high_first(pid) ==
    <<pid \o <<LabelHigh>>, pid \o <<LabelOpen>>,
      pid \o <<LabelLow>>, pid \o <<LabelClose>>>>

\* the four header fields of one series
header_columns(pid) ==
    <<pid \o <<LabelOpen>>, pid \o <<LabelHigh>>,
      pid \o <<LabelLow>>, pid \o <<LabelClose>>>>

\* export_to_tsv: the table and the mapping as written, the paths opened
\* for writing, and whether an open raised
export_to_tsv(cd, mapping, path) ==
    LET axis == series_axis(cd)
        sorted_timestamps == SortedSet(all_timestamps(cd))
        header == <<<<LabelTime>>>> \o Flatten(
            [i \in 1..Len(axis) |-> header_columns(axis[i])])
        row(t) == <<strftime(t)>> \o Flatten(
            [i \in 1..Len(axis) |->
                Cells(cd[IndexOf(cd, axis[i])].candles, t)])
        tsv == <<Join(header, "\t")>>
                  \o [k \in 1..Len(sorted_timestamps) |->
                         Join(row(sorted_timestamps[k]), "\t")]
        map == mapping_lines(axis, mapping)
        tsv_file == normalized_output_file(path)
        map_file == mapping_file(tsv_file)
    IN [pid_list |-> axis,
        table |-> Join(tsv, "\n"),
        mapping |-> Join(map, "\n"),
        opened |-> IF ~CanOpen(tsv_file) THEN <<>>
                   ELSE IF ~CanOpen(map_file) THEN <<tsv_file>>
                   ELSE <<tsv_file, map_file>>,
        raised |-> ~(CanOpen(tsv_file) /\ CanOpen(map_file))]

----------------------------------------------------------------------------
(* Input domains *)

PIDs == {7, 42, 100}
Cmds == {"A", "B", "C"}

Day == 4
Hours == {9, 10}
Minutes == 0..59
SecondParts == {<<0, 0>>, <<59, 0>>, <<59, 999999>>}
Stamps == {Dt(Day, h, m, sp[1], sp[2]) : h \in Hours, m \in Minutes,
                                         sp \in SecondParts}
Intervals == {1, 7, 15, 60, 90}

\* the snapshot files a data directory may hold: the sampler names a file
\* by the second it was saved in, and stamps the record it holds
SlotTimes == <<Dt(Day, 10, 3, 0, 0), Dt(Day, 10, 14, 59, 0),
               Dt(Day, 10, 15, 0, 0)>>
RunPIDs == {7, 42}
RunCmds == {"A", "B"}
\* items for the runs about identities: every command, one size
Items == [pid : RunPIDs, cmd : RunCmds, rss : {1}]
\* items for the runs about candle values: one command, every size
SizedItems == [pid : RunPIDs, cmd : {"A"}, rss : {1, 2, 3}]
\* the default of aggregate_to_candles and of the --interval option
DefaultInterval == 15
RunIntervals == {DefaultInterval, 60}
WholeDay == <<Dt(Day, 0, 0, 0, 0), Dt(Day, 23, 59, 59, 0)>>
Windows == {WholeDay, <<Dt(Day, 10, 0, 0, 0), Dt(Day, 10, 14, 59, 0)>>}

\* samples laid out over the slots: q[i] = <<item, slot>>, slots ascending
Layouts(items) ==
    UNION {{q \in [1..n -> items \X (1..Len(SlotTimes))] :
               \A i \in 1..(n - 1) : q[i][2] <= q[i + 1][2]} :
           n \in 0..MaxSamples}

ItemsOfSlot(q, k) ==
    LET idx == {i \in 1..Len(q) : q[i][2] = k}
        first == CHOOSE i \in idx : \A j \in idx : i <= j
    IN [j \in 1..Cardinality(idx) |-> q[first + j - 1][1]]

FilesOf(q) ==
    {[name |-> <<SlotTimes[k]>>, content |-> "record",
      timestamp |-> <<SlotTimes[k]>>, items |-> ItemsOfSlot(q, k)] :
        k \in {q[i][2] : i \in 1..Len(q)}}

FileSets(items) == {FilesOf(q) : q \in Layouts(items)}

\* A data directory in which things went wrong.  The sampler stamps the
\* record first and names the file by the second it is saved in, so that
\* the record of the second slot, stamped in the last microsecond of
\* 10:14:59, is in the file named 10:15:00.
RecoverySlots ==
    <<[name |-> Dt(Day, 10, 3, 0, 0), timestamp |-> Dt(Day, 10, 3, 0, 0)],
      [name |-> Dt(Day, 10, 15, 0, 0),
       timestamp |-> Dt(Day, 10, 14, 59, 999999)],
      [name |-> Dt(Day, 10, 20, 0, 0), timestamp |-> Dt(Day, 10, 20, 0, 0)]>>

Item7 == [pid |-> 7, cmd |-> "A", rss |-> 1]
Item42 == [pid |-> 42, cmd |-> "A", rss |-> 1]
NoPidItem == [cmd |-> "A", rss |-> 1]
RecoveryItemLists ==
    {<<Item7>>, <<Item7, NoPidItem, Item42>>, <<Item7, NotADict, Item42>>,
     <<NoPidItem>>, <<NotADict, Item7>>}

\* the files slot k may hold: a sound one, or one that fails in one way
SoundFiles(k) ==
    {[name |-> <<RecoverySlots[k].name>>, content |-> "record",
      timestamp |-> <<RecoverySlots[k].timestamp>>, items |-> items] :
        items \in RecoveryItemLists}
FailingFiles(k) ==
    {[name |-> <<>>, content |-> "record",
      timestamp |-> <<RecoverySlots[k].timestamp>>, items |-> <<Item7>>],
     [name |-> <<RecoverySlots[k].name>>, content |-> "unreadable",
      timestamp |-> <<>>, items |-> <<>>],
     [name |-> <<RecoverySlots[k].name>>, content |-> "invalid",
      timestamp |-> <<>>, items |-> <<>>],
     [name |-> <<RecoverySlots[k].name>>, content |-> "record",
      timestamp |-> <<>>, items |-> <<Item42>>]}
SlotChoices(k) == {{}} \cup {{f} : f \in SoundFiles(k) \cup FailingFiles(k)}

RecoveryFileSets ==
    {a \cup b \cup c : a \in SlotChoices(1), b \in SlotChoices(2),
                       c \in SlotChoices(3)}

LateWindow == <<Dt(Day, 10, 15, 0, 0), Dt(Day, 23, 59, 59, 0)>>

\* what the command line tool is run on: at most two snapshot files, sound,
\* without a usable item, or unreadable; a window before all of them
CliItemLists == {<<Item7>>, <<Item7, Item42>>, <<NoPidItem>>, <<NotADict>>}
CliChoices(k) ==
    {{}} \cup {{f} : f \in
        {[name |-> <<RecoverySlots[k].name>>, content |-> "record",
          timestamp |-> <<RecoverySlots[k].timestamp>>, items |-> items] :
            items \in CliItemLists}
        \cup {[name |-> <<RecoverySlots[k].name>>, content |-> "unreadable",
               timestamp |-> <<>>, items |-> <<>>]}}
CliFileSets == {a \cup b : a \in CliChoices(1), b \in CliChoices(3)}
EarlyWindow == <<Dt(Day, 9, 0, 0, 0), Dt(Day, 9, 59, 59, 0)>>
CliWindows == {WholeDay, LateWindow, EarlyWindow}

\* --output: out, out.tsv, out.tsv.tsv, a.tsvb, d/out and x.tsv/out
DefaultOutput == <<"o", "u", "t">>
OutputFiles ==
    {DefaultOutput, DefaultOutput \o Tsv, DefaultOutput \o Tsv \o Tsv,
     <<"a">> \o Tsv \o <<"b">>, <<"d", "/">> \o DefaultOutput,
     <<"x">> \o Tsv \o <<"/">> \o DefaultOutput}

\* a data directory for an aggregator that is used twice: PID 7 may change
\* its command within a file or from file to file
Item7B == [pid |-> 7, cmd |-> "B", rss |-> 1]
ReuseItemLists == {<<Item7>>, <<Item7B>>, <<Item7, Item7B>>, <<Item7, Item42>>}
ReuseChoices(k) ==
    {{}} \cup {{[name |-> <<SlotTimes[k]>>, content |-> "record",
                 timestamp |-> <<SlotTimes[k]>>, items |-> items]} :
                  items \in ReuseItemLists}
ReuseFileSets ==
    {a \cup b \cup c : a \in ReuseChoices(1), b \in ReuseChoices(2),
                       c \in ReuseChoices(3)}
RecoveryWindows == {WholeDay, LateWindow}

----------------------------------------------------------------------------
(* Initial states *)

ResolverNew ==
    /\ pid_cmd_mapping = EmptyDict
    /\ pid_counters = EmptyDict

ResolverIdle == ResolverNew /\ calls = <<>>

CandleIdle == candle = NewCandle(SlotTimes[1])

BucketIdle == bucketed = <<>>

\* no time option: the aggregator is used without the command line
NoArgs == [hours |-> <<>>, days |-> <<>>, range |-> <<>>]

\* the threads of the daemon that call cleanup_old_files: the main loop
\* (through emergency_cleanup) and the cleanup worker
Threads == {"main", "worker"}

\* no cleanup_old_files call in progress
NoCleanup ==
    [pc |-> "idle", json_files |-> <<>>, files_to_delete |-> <<>>,
     deleted_count |-> 0, result |-> <<>>]

\* no emergency_cleanup call in progress
NoEmergency == [pc |-> "idle", original_retention |-> 0]

\* no settings loaded
NoConfig == [file_retention_count |-> 0]

StoreIdle ==
    /\ config = NoConfig
    /\ snapshots = {}
    /\ file_retention_count = 0
    /\ cleanup = [t \in Threads |-> NoCleanup]
    /\ emergency = NoEmergency
    /\ removed = <<>>
    /\ skipped = {}

\* no save_json call in progress
NoSave ==
    [pc |-> "idle", second |-> 0, failed_at |-> "", renamed |-> FALSE,
     refused |-> FALSE, calls |-> 0]

DaemonIdle == save = NoSave

\* no validator made
ValidatorIdle == allowed_output_paths = <<>> /\ validated = <<>>

\* no _load_json_files call in progress
NoLoader ==
    [pc |-> "idle", file_paths |-> <<>>, json_files |-> <<>>, log |-> <<>>]
NoChurn == [added |-> {}, deleted |-> {}]
LoaderIdle == loader = NoLoader /\ churn = NoChurn

\* no daemon made
NoDaemon ==
    [running |-> FALSE, main |-> "none", elapsed_sleep |-> 0,
     sleep_time |-> 0, handlers |-> <<>>, worker |-> "none", counter |-> 0]
NoShutdown ==
    [signals |-> 0, cycles |-> 0, late_cycles |-> 0, late_collects |-> 0,
     late_sleeps |-> 0]
LoopIdle == daemon = NoDaemon /\ shutdown = NoShutdown

ServiceIdle == ValidatorIdle /\ LoaderIdle /\ LoopIdle

EnvIdle == args = NoArgs /\ StoreIdle /\ DaemonIdle /\ ServiceIdle

LocalsCleared ==
    /\ raw_data = <<>>
    /\ process_data = <<>>
    /\ time_groups = <<>>
    /\ candle_data = <<>>
    /\ pid_list = <<>>
    /\ table_text = <<>>
    /\ mapping_text = <<>>

EngineIdle ==
    /\ files = {}
    /\ start_time = SlotTimes[1]
    /\ end_time = SlotTimes[1]
    /\ raw_data = <<>>
    /\ time_groups = <<>>
    /\ candle_data = <<>>
    /\ pid_list = <<>>
    /\ table_text = <<>>
    /\ mapping_text = <<>>
    /\ pc = "idle"
    /\ runs = 0
    /\ outputs = {}
    /\ output_file = DefaultOutput
    /\ written = <<>>
    /\ stderr = {}
    /\ exit_code = <<>>

RunIdle == EngineIdle /\ EnvIdle

----------------------------------------------------------------------------
(* The identity resolver, call by call *)

InitResolver ==
    /\ ResolverIdle
    /\ CandleIdle
    /\ BucketIdle
    /\ interval_minutes = DefaultInterval
    /\ RunIdle
    /\ process_data = <<>>

Resolve(pid, cmd) ==
    /\ Len(calls) < MaxCalls
    /\ LET r == handle_pid_duplication(
                    [mapping |-> pid_cmd_mapping, counters |-> pid_counters],
                    pid, cmd)
       IN /\ pid_cmd_mapping' = r.mapping
          /\ pid_counters' = r.counters
          /\ calls' = Append(calls,
                 [pid |-> pid, cmd |-> cmd, key |-> r.key,
                  record |-> IF pid \in DOMAIN pid_cmd_mapping
                             THEN <<pid_cmd_mapping[pid]>> ELSE <<>>])
    /\ UNCHANGED <<candle, interval_minutes, envVars, bucketVars, runVars>>

NextResolver == \E pid \in PIDs, cmd \in Cmds : Resolve(pid, cmd)

SpecResolver == InitResolver /\ [][NextResolver]_vars

----------------------------------------------------------------------------
(* One candle, point by point *)

InitCandle ==
    /\ ResolverIdle
    /\ CandleIdle
    /\ BucketIdle
    /\ interval_minutes = DefaultInterval
    /\ RunIdle
    /\ process_data = <<>>

AddDataPoint(rss) ==
    /\ Len(candle.data_points) < MaxPoints
    /\ candle' = add_data_point(candle, rss)
    /\ UNCHANGED <<resolverVars, interval_minutes, envVars, bucketVars,
                   runVars>>

NextCandle == \E rss \in 0..MaxRss : AddDataPoint(rss)

SpecCandle == InitCandle /\ [][NextCandle]_vars

----------------------------------------------------------------------------
(* The time bucketer, timestamp by timestamp *)

InitBucket ==
    /\ ResolverIdle
    /\ CandleIdle
    /\ BucketIdle
    /\ interval_minutes \in Intervals
    /\ RunIdle
    /\ \E t1, t2 \in Stamps :
         process_data = <<[timestamp |-> t1], [timestamp |-> t2]>>

\* the bucket start of each data point, as _group_by_time_interval computes it
BucketStart ==
    /\ bucketed = <<>>
    /\ bucketed' = [i \in 1..Len(process_data) |->
                       [timestamp |-> process_data[i].timestamp,
                        start |-> interval_start(process_data[i].timestamp,
                                                 interval_minutes)]]
    /\ UNCHANGED <<resolverVars, candle, interval_minutes, envVars, runVars>>

NextBucket == BucketStart

SpecBucket == InitBucket /\ [][NextBucket]_vars

----------------------------------------------------------------------------
(* Aggregation runs over one data directory *)

InitFiles(file_sets, intervals, windows, output_files) ==
    /\ ResolverIdle
    /\ CandleIdle
    /\ BucketIdle
    /\ interval_minutes \in intervals
    /\ files \in file_sets
    /\ \E w \in windows : start_time = w[1] /\ end_time = w[2]
    /\ LocalsCleared
    /\ EnvIdle
    /\ pc = "new"
    /\ runs = 1
    /\ outputs = {}
    /\ output_file \in output_files
    /\ written = <<>>
    /\ stderr = {}
    /\ exit_code = <<>>

InitRun(items, intervals, windows) ==
    InitFiles(FileSets(items), intervals, windows, {DefaultOutput})

Init == InitRun(Items, {DefaultInterval}, Windows)

InitOhlc == InitRun(SizedItems, RunIntervals, {WholeDay})

\* create_aggregator: a fresh MemoryAggregator for another run
CreateAggregator ==
    /\ pc \in {"exported", "nodata"}
    /\ runs < MaxRuns
    /\ pid_cmd_mapping' = EmptyDict
    /\ pid_counters' = EmptyDict
    /\ raw_data' = <<>>
    /\ process_data' = <<>>
    /\ time_groups' = <<>>
    /\ candle_data' = <<>>
    /\ pid_list' = <<>>
    /\ table_text' = <<>>
    /\ mapping_text' = <<>>
    /\ pc' = "new"
    /\ runs' = runs + 1
    /\ stderr' = {}
    /\ exit_code' = <<>>
    /\ UNCHANGED <<calls, candle, interval_minutes, envVars, bucketVars,
                   files,
                   start_time, end_time, outputs, output_file, written>>

\* aggregate_to_candles; glob returns the files in some order (the result
\* of the call is bound as the one element of a set)
AggregateToCandles ==
    /\ pc = "new"
    /\ \E file_paths \in Perms(files) :
         /\ ~group_raises(
                [mapping |-> pid_cmd_mapping, counters |-> pid_counters],
                file_paths, start_time, end_time, interval_minutes)
         /\ \E run \in {aggregate_to_candles(
                        [mapping |-> pid_cmd_mapping,
                         counters |-> pid_counters],
                        file_paths, start_time, end_time, interval_minutes)} :
               /\ raw_data' = run.raw_data
               /\ pid_cmd_mapping' = run.mapping
               /\ pid_counters' = run.counters
               /\ process_data' = run.process_data
               /\ time_groups' = run.time_groups
               /\ candle_data' = run.candle_data
    /\ pc' = "aggregated"
    /\ UNCHANGED <<calls, candle, interval_minutes, envVars, bucketVars,
                   files,
                   start_time, end_time, pid_list, table_text, mapping_text,
                   runs, outputs, cliVars>>

\* what leaves the try block of main: sys.exit(code) raises SystemExit(code)
SystemExit(code) == [type |-> "SystemExit", code |-> code]
KeyboardInterrupt == [type |-> "KeyboardInterrupt", code |-> 1]
\* any exception that derives from Exception
RaisedException == [type |-> "Exception", code |-> 1]

\* mutant: the second clause catches everything (a bare except)
main_handler_bare_except(exc) ==
    IF exc.type = "KeyboardInterrupt" THEN 1 ELSE 111

\* the except clauses of main: the exit code the process ends with when exc
\* leaves the try block; SystemExit is no Exception and passes through
main_handler(exc) ==
    IF exc.type = "KeyboardInterrupt" THEN 1
    ELSE IF exc.type = "Exception" THEN 111
    ELSE exc.code

\* mutant: the result is never taken for empty
not_candle_data_never(cd) == FALSE

\* "not candle_data" of main
not_candle_data(cd) == Len(cd) = 0

\* main's "if not candle_data" branch: a warning, nothing is exported,
\* sys.exit(0)
NoData ==
    /\ pc = "aggregated"
    /\ not_candle_data(candle_data)
    /\ pc' = "nodata"
    /\ stderr' = stderr \cup {"warning: no data"}
    /\ exit_code' = <<main_handler(SystemExit(0))>>
    /\ UNCHANGED <<resolverVars, candle, interval_minutes, envVars, bucketVars,
                   files,
                   start_time, end_time, raw_data, process_data, time_groups,
                   candle_data, pid_list, table_text, mapping_text, runs,
                   outputs, output_file, written>>

\* export_to_tsv on the aggregator that produced candle_data; an open that
\* raises leaves what was written before it
ExportToTsv ==
    /\ pc = "aggregated"
    /\ ~not_candle_data(candle_data)
    /\ \E out \in {export_to_tsv(candle_data, pid_cmd_mapping, output_file)} :
          /\ pid_list' = out.pid_list
          /\ table_text' = IF Len(out.opened) >= 1 THEN out.table
                           ELSE table_text
          /\ mapping_text' = IF Len(out.opened) >= 2 THEN out.mapping
                             ELSE mapping_text
          /\ outputs' = IF out.raised THEN outputs
                        ELSE outputs \cup
                                {[table |-> out.table, mapping |-> out.mapping]}
          /\ written' = written \o out.opened
          /\ pc' = IF out.raised THEN "failed" ELSE "exported"
    /\ UNCHANGED <<resolverVars, candle, interval_minutes, envVars, bucketVars,
                   files,
                   start_time, end_time, raw_data, process_data, time_groups,
                   candle_data, runs, output_file, stderr, exit_code>>

\* main after export_to_tsv returned: the summary is printed and the
\* process ends
Complete ==
    /\ pc = "exported"
    /\ pc' = "exited"
    /\ stderr' = stderr \cup {"done"}
    /\ exit_code' = <<0>>
    /\ UNCHANGED <<resolverVars, candle, interval_minutes, envVars, bucketVars,
                   files,
                   start_time, end_time, raw_data, process_data, time_groups,
                   candle_data, pid_list, table_text, mapping_text, runs,
                   outputs, output_file, written>>

\* main's "except Exception" clause: sys.exit(111)
Fail ==
    /\ pc = "failed"
    /\ pc' = "exited"
    /\ stderr' = stderr \cup {"error"}
    /\ exit_code' = <<main_handler(RaisedException)>>
    /\ UNCHANGED <<resolverVars, candle, interval_minutes, envVars, bucketVars,
                   files,
                   start_time, end_time, raw_data, process_data, time_groups,
                   candle_data, pid_list, table_text, mapping_text, runs,
                   outputs, output_file, written>>

Next ==
    \/ AggregateToCandles
    \/ NoData
    \/ ExportToTsv
    \/ CreateAggregator

Spec == Init /\ [][Next]_vars

NextOhlc ==
    \/ AggregateToCandles
    \/ NoData
    \/ ExportToTsv

\* single runs over snapshot files whose items differ in size
SpecOhlc == InitOhlc /\ [][NextOhlc]_vars

\* a second aggregate_to_candles call on the aggregator that has just
\* returned candle_data, over the same directory, window and interval
AggregateAgain ==
    /\ pc = "aggregated"
    /\ \E file_paths \in Perms(files) :
         \E run \in {aggregate_to_candles(
                        [mapping |-> pid_cmd_mapping,
                         counters |-> pid_counters],
                        file_paths, start_time, end_time, interval_minutes)} :
            /\ raw_data' = run.raw_data
            /\ pid_cmd_mapping' = run.mapping
            /\ pid_counters' = run.counters
            /\ process_data' = run.process_data
            /\ time_groups' = run.time_groups
            /\ candle_data' = run.candle_data
    /\ pc' = "reaggregated"
    /\ UNCHANGED <<calls, candle, interval_minutes, envVars, bucketVars,
                   files,
                   start_time, end_time, pid_list, table_text, mapping_text,
                   runs, outputs, cliVars>>

InitReuse ==
    InitFiles(ReuseFileSets, {DefaultInterval}, {WholeDay}, {DefaultOutput})

NextReuse ==
    \/ AggregateToCandles
    \/ AggregateAgain
    \/ NoData
    \/ ExportToTsv

\* one aggregator whose aggregate_to_candles is called a second time
SpecReuse == InitReuse /\ [][NextReuse]_vars

InitRecovery ==
    InitFiles(RecoveryFileSets, {DefaultInterval}, RecoveryWindows,
              {DefaultOutput})

\* single runs over a data directory with failing files and malformed items
SpecRecovery == InitRecovery /\ [][NextOhlc]_vars

InitCli ==
    InitFiles(CliFileSets, {DefaultInterval}, CliWindows, OutputFiles)

NextCli ==
    \/ AggregateToCandles
    \/ NoData
    \/ ExportToTsv
    \/ Complete
    \/ Fail

\* one run of bin/aggregate.py from create_aggregator to the exit
SpecCli == InitCli /\ [][NextCli]_vars

-----------------------------------------------------------------------------
(* bin/aggregate.py: the time options and the exits of main *)

\* a text of one or two digits
IsNumber(s) ==
    /\ Len(s) \in 1..2
    /\ \A i \in 1..Len(s) : \E d \in 0..9 : s[i] = DigitChar(d)

\* datetime.strptime(text, "%Y-%m-%d %H:%M:%S"), the year and month left
\* out: <<the datetime>>, or <<>> where strptime raises ValueError
strptime(text) ==
    LET parts == Split(text, " ")
        clock == Split(parts[2], ":")
    IN IF Len(parts) # 2 \/ ~IsNumber(parts[1]) THEN <<>>
       ELSE IF Len(clock) # 3 \/ \E i \in 1..3 : ~IsNumber(clock[i]) THEN <<>>
       ELSE IF /\ ParseInt(parts[1]) \in 1..31
               /\ ParseInt(clock[1]) \in 0..23
               /\ ParseInt(clock[2]) \in 0..59
               /\ ParseInt(clock[3]) \in 0..59
            THEN <<Dt(ParseInt(parts[1]), ParseInt(clock[1]),
                      ParseInt(clock[2]), ParseInt(clock[3]), 0)>>
            ELSE <<>>

\* t - timedelta(hours=h)
MinusHours(t, h) ==
    LET n == DtSeconds(t) - h * 3600
    IN Dt(n \div 86400, (n \div 3600) % 24, (n \div 60) % 60, n % 60,
          t.microsecond)

\* calculate_time_range: the window of the options a at the time now, or the
\* SystemExit it raises
calculate_time_range(a, now) ==
    LET checked(start, end) ==
            IF ~DtLess(start, end)
            THEN [raised |-> <<SystemExit(110)>>, start_time |-> start,
                  end_time |-> end]
            ELSE [raised |-> <<>>, start_time |-> start, end_time |-> end]
    IN IF a.hours # <<>> THEN checked(MinusHours(now, a.hours[1]), now)
       ELSE IF a.days # <<>> THEN checked(MinusHours(now, 24 * a.days[1]), now)
       ELSE IF a.range # <<>>
       THEN IF strptime(a.range[1]) = <<>> \/ strptime(a.range[2]) = <<>>
            THEN [raised |-> <<SystemExit(108)>>, start_time |-> now,
                  end_time |-> now]
            ELSE checked(strptime(a.range[1])[1], strptime(a.range[2])[1])
       ELSE [raised |-> <<SystemExit(109)>>, start_time |-> now,
             end_time |-> now]

\* datetime.now() when the tool is started
Nows == {Dt(Day, 10, 20, 0, 5)}

\* --range texts: two sound ones, one without any field, one with hour 24
DateTexts ==
    {strftime(Dt(Day, 10, 0, 0, 0)), strftime(Dt(Day, 10, 20, 0, 0)),
     <<"x">>,
     Pad2(Day) \o <<" ", "2", "4", ":", "0", "0", ":", "0", "0">>}

\* --hours and --days take any integer; --range takes two texts
ArgSets ==
    {[hours |-> <<h>>, days |-> <<>>, range |-> <<>>] : h \in {-1, 0, 1}}
    \cup {[hours |-> <<>>, days |-> <<d>>, range |-> <<>>] : d \in {0, 1}}
    \cup {[hours |-> <<>>, days |-> <<>>, range |-> <<a, b>>] :
             a \in DateTexts, b \in DateTexts}

\* the files the exits are examined over: none, one or two sound files
ExitFileSets ==
    {a \cup b : a \in {{}} \cup {{f} : f \in SoundFiles(1)},
                b \in {{}} \cup {{f} : f \in SoundFiles(3)}}

\* --output: a path that can be written and one whose mapping cannot
ExitOutputFiles == {DefaultOutput, <<"x">> \o Tsv \o <<"/">> \o DefaultOutput}

\* --interval: the default, and 0
ExitIntervals == {DefaultInterval, 0}

InitExit ==
    /\ ResolverIdle
    /\ CandleIdle
    /\ BucketIdle
    /\ interval_minutes \in ExitIntervals
    /\ files \in ExitFileSets
    /\ start_time = SlotTimes[1]
    /\ end_time = SlotTimes[1]
    /\ LocalsCleared
    /\ args \in ArgSets
    /\ StoreIdle
    /\ DaemonIdle
    /\ ServiceIdle
    /\ pc = "start"
    /\ runs = 0
    /\ outputs = {}
    /\ output_file \in ExitOutputFiles
    /\ written = <<>>
    /\ stderr = {}
    /\ exit_code = <<>>

\* main from calculate_time_range to create_aggregator: a SystemExit raised
\* by calculate_time_range leaves the try block of main
CalculateTimeRange ==
    /\ pc = "start"
    /\ \E now \in Nows : \E r \in {calculate_time_range(args, now)} :
          IF r.raised = <<>>
          THEN /\ start_time' = r.start_time
               /\ end_time' = r.end_time
               /\ runs' = runs + 1
               /\ pc' = "new"
               /\ UNCHANGED <<stderr, exit_code>>
          ELSE /\ pc' = "exited"
               /\ stderr' = stderr \cup {"error: time range"}
               /\ exit_code' = <<main_handler(r.raised[1])>>
               /\ UNCHANGED <<start_time, end_time, runs>>
    /\ UNCHANGED <<resolverVars, candle, interval_minutes, envVars, bucketVars,
                   files, raw_data, process_data, time_groups, candle_data,
                   pid_list, table_text, mapping_text, outputs, output_file,
                   written>>

\* aggregate_to_candles raising: the samples were resolved, the exception is
\* printed and raised again to main
AggregateRaises ==
    /\ pc = "new"
    /\ \E file_paths \in Perms(files) :
         /\ group_raises(
                [mapping |-> pid_cmd_mapping, counters |-> pid_counters],
                file_paths, start_time, end_time, interval_minutes)
         /\ \E raw \in {load_json_files(file_paths, start_time, end_time)} :
            \E ex \in {extract_process_data(
                          [mapping |-> pid_cmd_mapping,
                           counters |-> pid_counters,
                           process_data |-> <<>>], raw)} :
               /\ raw_data' = raw
               /\ pid_cmd_mapping' = ex.mapping
               /\ pid_counters' = ex.counters
               /\ process_data' = ex.process_data
    /\ pc' = "failed"
    /\ UNCHANGED <<calls, candle, interval_minutes, envVars, bucketVars,
                   files, start_time, end_time, time_groups, candle_data,
                   pid_list, table_text, mapping_text, runs, outputs, cliVars>>

\* Ctrl-C while the try block of main runs: the "except KeyboardInterrupt"
\* clause
Interrupt ==
    /\ pc \in {"start", "new", "aggregated", "exported"}
    /\ pc' = "exited"
    /\ stderr' = stderr \cup {"interrupted"}
    /\ exit_code' = <<main_handler(KeyboardInterrupt)>>
    /\ UNCHANGED <<resolverVars, candle, interval_minutes, envVars, bucketVars,
                   files, start_time, end_time, raw_data, process_data,
                   time_groups, candle_data, pid_list, table_text,
                   mapping_text, runs, outputs, output_file, written>>

NextExit ==
    \/ CalculateTimeRange
    \/ AggregateToCandles
    \/ AggregateRaises
    \/ NoData
    \/ ExportToTsv
    \/ Complete
    \/ Fail
    \/ Interrupt

\* one run of bin/aggregate.py from its time options to the exit
SpecExit == InitExit /\ [][NextExit]_vars

-----------------------------------------------------------------------------
(* src/file_manager.py: retention of the snapshot files *)

\* A directory entry is [filename, ctime, content]; a file name is the text
\* memory_<second> followed by .json, and by .tmp while save_json writes it.
JsonSuffix == <<".json">>
TmpSuffix == <<".tmp">>
SnapshotName(n) == <<"memory_", n>> \o JsonSuffix
SnapshotFile(n, c) ==
    [filename |-> SnapshotName(n), ctime |-> c, content |-> "complete"]

\* the files of the directory that os.listdir returned in the given order
ListedJsonFiles(listing) ==
    SelectSeq(listing,
              LAMBDA f : EndsWith(f.filename, JsonSuffix)
                             /\ ~EndsWith(f.filename, TmpSuffix))

\* mutant: the list is sorted oldest first
get_json_files_oldest_first(listing) ==
    LET found == ListedJsonFiles(listing)
        sorted == StableSort(found,
                      [i \in 1..Len(found), j \in 1..Len(found) |->
                          found[i].ctime < found[j].ctime])
    IN [k \in 1..Len(sorted) |-> sorted[k].filename]

\* _get_json_files: the paths of the *.json files, newest creation time
\* first; list.sort is stable, also with reverse=True
get_json_files(listing) ==
    LET found == ListedJsonFiles(listing)
        sorted == StableSort(found,
                      [i \in 1..Len(found), j \in 1..Len(found) |->
                          found[i].ctime > found[j].ctime])
    IN [k \in 1..Len(sorted) |-> sorted[k].filename]

\* json_files[n:]
SliceFrom(json_files, n) ==
    IF n >= Len(json_files) THEN <<>>
    ELSE SubSeq(json_files, n + 1, Len(json_files))

\* the number of *.json files in the directory
JsonFileCount ==
    Cardinality({f \in snapshots : EndsWith(f.filename, JsonSuffix)})

\* cleanup_old_files, line 79: the directory is listed
CleanupList(t) ==
    /\ cleanup[t].pc = "call"
    /\ \E listing \in Perms(snapshots) :
          cleanup' = [cleanup EXCEPT ![t].json_files = get_json_files(listing),
                                     ![t].pc = "listed"]
    /\ UNCHANGED <<engineVars, daemonVars, config,
                   snapshots, file_retention_count,
                   emergency, removed, skipped>>

\* cleanup_old_files, lines 81-82: nothing to delete, return 0
CleanupCheck(t) ==
    /\ cleanup[t].pc = "listed"
    /\ cleanup' =
          IF Len(cleanup[t].json_files) <= file_retention_count
          THEN [cleanup EXCEPT ![t].pc = "returned", ![t].result = <<0>>]
          ELSE [cleanup EXCEPT ![t].pc = "slice"]
    /\ UNCHANGED <<engineVars, daemonVars, config,
                   snapshots, file_retention_count,
                   emergency, removed, skipped>>

\* cleanup_old_files, lines 85-86: file_retention_count is read again
CleanupSlice(t) ==
    /\ cleanup[t].pc = "slice"
    /\ cleanup' = [cleanup EXCEPT
          ![t].files_to_delete =
              SliceFrom(cleanup[t].json_files, file_retention_count),
          ![t].deleted_count = 0,
          ![t].pc = "loop"]
    /\ UNCHANGED <<engineVars, daemonVars, config,
                   snapshots, file_retention_count,
                   emergency, removed, skipped>>

\* cleanup_old_files, lines 88-95: one os.remove; it raises OSError when the
\* file is gone, and whenever the system refuses
CleanupRemove(t) ==
    /\ cleanup[t].pc = "loop"
    /\ cleanup[t].files_to_delete # <<>>
    /\ \E refused \in BOOLEAN :
          LET file_path == Head(cleanup[t].files_to_delete)
              present == {f \in snapshots : f.filename = file_path}
          IN IF present # {} /\ ~refused
             THEN /\ snapshots' = snapshots \ present
                  /\ removed' = Append(removed,
                        [by |-> t, file_path |-> file_path,
                         count |-> JsonFileCount])
                  /\ cleanup' = [cleanup EXCEPT
                        ![t].files_to_delete = Tail(@),
                        ![t].deleted_count = @ + 1]
                  /\ UNCHANGED skipped
             ELSE /\ skipped' = skipped \cup
                                    {[by |-> t, file_path |-> file_path]}
                  /\ cleanup' = [cleanup EXCEPT
                        ![t].files_to_delete = Tail(@)]
                  /\ UNCHANGED <<snapshots, removed>>
    /\ UNCHANGED <<engineVars, daemonVars, config,
                   file_retention_count, emergency>>

\* cleanup_old_files, lines 97-98: return deleted_count
CleanupReturn(t) ==
    /\ cleanup[t].pc = "loop"
    /\ cleanup[t].files_to_delete = <<>>
    /\ cleanup' = [cleanup EXCEPT ![t].pc = "returned",
                                  ![t].result = <<cleanup[t].deleted_count>>]
    /\ UNCHANGED <<engineVars, daemonVars, config,
                   snapshots, file_retention_count,
                   emergency, removed, skipped>>

\* cleanup_worker: the periodic cleanup_old_files call
PeriodicCleanup ==
    /\ cleanup["worker"].pc = "idle"
    /\ cleanup' = [cleanup EXCEPT !["worker"].pc = "call"]
    /\ UNCHANGED <<engineVars, daemonVars, config,
                   snapshots, file_retention_count,
                   emergency, removed, skipped>>

\* emergency_cleanup, lines 166-170: the retention count is halved and
\* cleanup_old_files is called
EmergencyBegin ==
    /\ emergency.pc = "idle"
    /\ cleanup["main"].pc = "idle"
    /\ emergency' = [pc |-> "cleaning",
                     original_retention |-> file_retention_count]
    /\ file_retention_count' = Max(1, file_retention_count \div 2)
    /\ cleanup' = [cleanup EXCEPT !["main"].pc = "call"]
    /\ UNCHANGED <<engineVars, daemonVars, config,
                   snapshots, removed, skipped>>

\* emergency_cleanup, lines 171-174: the retention count is put back
EmergencyEnd ==
    /\ emergency.pc = "cleaning"
    /\ cleanup["main"].pc = "returned"
    /\ file_retention_count' = emergency.original_retention
    /\ emergency' = [emergency EXCEPT !.pc = "done"]
    /\ UNCHANGED <<engineVars, daemonVars, config,
                   snapshots, cleanup, removed, skipped>>

\* the directories the retention is examined over: up to four snapshot
\* files, two of them created in the same instant, and a file in writing
RetentionFiles ==
    {SnapshotFile(1, 1), SnapshotFile(2, 2), SnapshotFile(3, 2),
     SnapshotFile(4, 4)}
FileInWriting ==
    [filename |-> SnapshotName(5) \o TmpSuffix, ctime |-> 5,
     content |-> "partial"]
RetentionDirectories ==
    {S \cup T : S \in SUBSET RetentionFiles, T \in {{}, {FileInWriting}}}
RetentionCounts == {1, 2, 3}

\* everything but the file manager at rest
EngineAtRest ==
    /\ ResolverIdle
    /\ CandleIdle
    /\ BucketIdle
    /\ interval_minutes = DefaultInterval
    /\ EngineIdle
    /\ process_data = <<>>
    /\ args = NoArgs

InitRetention ==
    /\ EngineAtRest
    /\ config \in [file_retention_count : RetentionCounts]
    /\ snapshots \in RetentionDirectories
    /\ file_retention_count = config.file_retention_count
    /\ cleanup = [t \in Threads |-> NoCleanup]
    /\ emergency = NoEmergency
    /\ removed = <<>>
    /\ skipped = {}
    /\ DaemonIdle
    /\ ServiceIdle

NextRetention ==
    \/ PeriodicCleanup
    \/ CleanupList("worker")
    \/ CleanupCheck("worker")
    \/ CleanupSlice("worker")
    \/ CleanupRemove("worker")
    \/ CleanupReturn("worker")

\* one cleanup_old_files call over a directory nobody else touches
SpecRetention == InitRetention /\ [][NextRetention]_vars

NextEmergency ==
    \/ PeriodicCleanup
    \/ EmergencyBegin
    \/ EmergencyEnd
    \/ \E t \in Threads :
          \/ CleanupList(t)
          \/ CleanupCheck(t)
          \/ CleanupSlice(t)
          \/ CleanupRemove(t)
          \/ CleanupReturn(t)

\* the main loop's emergency_cleanup and the cleanup worker's periodic
\* cleanup_old_files, interleaved statement by statement
SpecEmergency == InitRetention /\ [][NextEmergency]_vars

-----------------------------------------------------------------------------
(* src/file_manager.py: save_json, statement by statement *)

MaxSaves == 2      \* save_json calls of one run of the save specification

\* the second datetime.now() falls into when save_json names the file
SaveSeconds == {4, 5}

\* the two names of the call in progress
SaveFilepath == SnapshotName(save.second)
SaveTempFilepath == SaveFilepath \o TmpSuffix

\* the directory without the entry of the given name
Without(dir, filename) == {f \in dir : f.filename # filename}

\* what cleanup_old_files leaves alone here
cleanupVars == <<file_retention_count, cleanup, emergency, removed, skipped>>

\* lines 33-41: the names are made and the temp file is opened for
\* writing, created or cut to length 0
SaveOpen ==
    /\ save.pc = "idle"
    /\ save.calls < MaxSaves
    /\ \E n \in SaveSeconds :
          /\ save' = [pc |-> "opened", second |-> n, failed_at |-> "",
                      renamed |-> FALSE, refused |-> FALSE,
                      calls |-> save.calls + 1]
          /\ snapshots' =
                Without(snapshots, SnapshotName(n) \o TmpSuffix)
                    \cup {[filename |-> SnapshotName(n) \o TmpSuffix,
                           ctime |-> n, content |-> "empty"]}
    /\ UNCHANGED <<engineVars, config, cleanupVars>>

\* line 42: json.dump writes the document piece by piece
SaveDump ==
    /\ save.pc \in {"opened", "dumping"}
    /\ save' = [save EXCEPT
                   !.pc = IF save.pc = "opened" THEN "dumping" ELSE "dumped"]
    /\ snapshots' =
          Without(snapshots, SaveTempFilepath)
              \cup {[filename |-> SaveTempFilepath, ctime |-> save.second,
                     content |-> IF save.pc = "opened" THEN "partial"
                                 ELSE "complete"]}
    /\ UNCHANGED <<engineVars, config, cleanupVars>>

\* lines 43-44: flush and fsync, then the file is closed
SaveSync ==
    /\ save.pc = "dumped"
    /\ save' = [save EXCEPT !.pc = "synced"]
    /\ UNCHANGED <<engineVars, config, snapshots, cleanupVars>>

\* mutant: the document is written under the final name
SaveRename_in_place ==
    /\ save.pc = "opened"
    /\ save' = [save EXCEPT !.pc = "dumping", !.renamed = TRUE]
    /\ snapshots' =
          Without(Without(snapshots, SaveTempFilepath), SaveFilepath)
              \cup {[filename |-> SaveFilepath, ctime |-> save.second,
                     content |-> "partial"]}
    /\ UNCHANGED <<engineVars, config, cleanupVars>>

\* line 47: os.rename puts the temp file under the final name in one step,
\* in the place of a file of that name
SaveRename ==
    /\ save.pc = "synced"
    /\ save' = [save EXCEPT !.pc = "renamed", !.renamed = TRUE]
    /\ \E temp \in {f \in snapshots : f.filename = SaveTempFilepath} :
          snapshots' =
              Without(Without(snapshots, SaveTempFilepath), SaveFilepath)
                  \cup {[temp EXCEPT !.filename = SaveFilepath]}
    /\ UNCHANGED <<engineVars, config, cleanupVars>>

\* lines 50-58: the size is read, the message printed, the path returned
SaveReturn ==
    /\ save.pc = "renamed"
    /\ \E f \in snapshots : f.filename = SaveFilepath
    /\ save' = [save EXCEPT !.pc = "returned"]
    /\ UNCHANGED <<engineVars, config, snapshots, cleanupVars>>

\* any statement of the try block raising: open (no file is made), dump,
\* flush, fsync, rename, and after the rename getsize and print
SaveRaises ==
    /\ \/ save.pc = "idle" /\ save.calls < MaxSaves
       \/ save.pc \in {"opened", "dumping", "dumped", "synced", "renamed"}
    /\ \E n \in IF save.pc = "idle" THEN SaveSeconds ELSE {save.second} :
          save' = [save EXCEPT
                      !.pc = "except", !.second = n,
                      !.failed_at = IF save.pc = "idle" THEN "open"
                                    ELSE save.pc,
                      !.renamed = IF save.pc = "idle" THEN FALSE ELSE @,
                      !.refused = FALSE,
                      !.calls = IF save.pc = "idle" THEN @ + 1 ELSE @]
    /\ UNCHANGED <<engineVars, config, snapshots, cleanupVars>>

\* lines 60-71: the temp file is removed when it exists, a failure of that
\* being ignored, and the exception is raised again
SaveExcept ==
    /\ save.pc = "except"
    /\ \E refused \in BOOLEAN :
          /\ snapshots' = IF refused THEN snapshots
                          ELSE Without(snapshots, SaveTempFilepath)
          /\ save' = [save EXCEPT !.pc = "raised", !.refused = refused]
    /\ UNCHANGED <<engineVars, config, cleanupVars>>

\* the main loop comes round to save_json again
SaveAgain ==
    /\ save.pc \in {"returned", "raised"}
    /\ save.calls < MaxSaves
    /\ save' = [NoSave EXCEPT !.calls = save.calls]
    /\ UNCHANGED <<engineVars, config, snapshots, cleanupVars>>

\* the directories save_json is examined over: snapshot files of earlier
\* cycles, one of them of second 4, and a temp file a crash has left
SaveDirectories ==
    {S \cup T : S \in SUBSET {SnapshotFile(1, 1), SnapshotFile(4, 4)},
                T \in {{}, {FileInWriting}}}

InitSave ==
    /\ EngineAtRest
    /\ config \in [file_retention_count : {1, 2}]
    /\ snapshots \in SaveDirectories
    /\ file_retention_count = config.file_retention_count
    /\ cleanup = [t \in Threads |-> NoCleanup]
    /\ emergency = NoEmergency
    /\ removed = <<>>
    /\ skipped = {}
    /\ DaemonIdle
    /\ ServiceIdle

NextSave ==
    \/ SaveOpen
    \/ SaveDump
    \/ SaveSync
    \/ SaveRename
    \/ SaveReturn
    \/ SaveRaises
    \/ SaveExcept
    \/ SaveAgain
    \/ PeriodicCleanup
    \/ CleanupList("worker")
    \/ CleanupCheck("worker")
    \/ CleanupSlice("worker")
    \/ CleanupRemove("worker")
    \/ CleanupReturn("worker")

\* save_json calls of the main loop while the cleanup worker rotates
SpecSave == InitSave /\ [][NextSave]_vars

----------------------------------------------------------------------------
(* src/validator.py: validate_output_directory *)

\* s.startswith(prefix)
StartsWith(s, prefix) ==
    /\ Len(prefix) <= Len(s)
    /\ SubSeq(s, 1, Len(prefix)) = prefix

\* pattern in s: pattern occurs somewhere in the text s
Occurs(pattern, s) ==
    \E i \in 1..(Len(s) - Len(pattern) + 1) :
        SubSeq(s, i, i + Len(pattern) - 1) = pattern

\* str.lower(), over the letters the paths are written with
LowerChar(c) ==
    CASE c = "E" -> "e"
      [] c = "F" -> "f"
      [] c = "C" -> "c"
      [] OTHER -> c

lower(s) == [i \in 1..Len(s) |-> LowerChar(s[i])]

\* the directory the process runs in
Cwd == <<"/", "h">>

\* posixpath.normpath, the component loop: empty and "." components are
\* dropped, ".." takes the component before it away and is dropped itself
\* at the root of an absolute path
RECURSIVE NormComps(_, _, _)
NormComps(comps, new_comps, initial_slashes) ==
    IF comps = <<>> THEN new_comps
    ELSE LET comp == Head(comps)
         IN IF comp = <<>> \/ comp = <<".">>
            THEN NormComps(Tail(comps), new_comps, initial_slashes)
            ELSE IF \/ comp # <<".", ".">>
                    \/ initial_slashes = 0 /\ new_comps = <<>>
                    \/ /\ new_comps # <<>>
                       /\ new_comps[Len(new_comps)] = <<".", ".">>
            THEN NormComps(Tail(comps), Append(new_comps, comp),
                           initial_slashes)
            ELSE IF new_comps # <<>>
            THEN NormComps(Tail(comps),
                           SubSeq(new_comps, 1, Len(new_comps) - 1),
                           initial_slashes)
            ELSE NormComps(Tail(comps), new_comps, initial_slashes)

\* posixpath.normpath
normpath(path) ==
    IF path = <<>> THEN <<".">>
    ELSE LET initial_slashes ==
                 IF ~StartsWith(path, <<"/">>) THEN 0
                 ELSE IF StartsWith(path, <<"/", "/">>)
                         /\ ~StartsWith(path, <<"/", "/", "/">>)
                 THEN 2
                 ELSE 1
             comps == NormComps(Split(path, "/"), <<>>, initial_slashes)
             joined == [i \in 1..initial_slashes |-> "/"] \o Join(comps, "/")
         IN IF joined = <<>> THEN <<".">> ELSE joined

\* os.path.abspath: a relative path is joined to the working directory
abspath(path) ==
    IF StartsWith(path, <<"/">>) THEN normpath(path)
    ELSE normpath(Cwd \o <<"/">> \o path)

\* SYSTEM_DIRECTORIES
SYSTEM_DIRECTORIES ==
    {<<"/", "e", "t", "c">>, <<"/", "u", "s", "r">>, <<"/", "v", "a", "r">>,
     <<"/", "b", "i", "n">>, <<"/", "s", "b", "i", "n">>,
     <<"/", "b", "o", "o", "t">>, <<"/", "d", "e", "v">>,
     <<"/", "p", "r", "o", "c">>, <<"/", "s", "y", "s">>,
     <<"/", "l", "i", "b">>, <<"/", "l", "i", "b", "6", "4">>,
     <<"/", "r", "u", "n">>, <<"/", "r", "o", "o", "t">>}

\* _has_directory_traversal: the patterns are looked for in the lowercased
\* path as it was given
dangerous_patterns ==
    {<<".", ".", "/">>, <<".", ".", "\\">>, <<".", ".">>,
     <<"%", "2", "e", "%", "2", "e">>, <<"%", "2", "f">>, <<"%", "5", "c">>}

has_directory_traversal(path) ==
    \E pattern \in dangerous_patterns : Occurs(pattern, lower(path))

\* _is_system_directory
is_system_directory(abs_path) ==
    \E sys_dir \in SYSTEM_DIRECTORIES : StartsWith(abs_path, sys_dir)

\* _is_allowed_output_path
is_allowed_output_path(allowed, abs_path) ==
    \E i \in 1..Len(allowed) : StartsWith(abs_path, allowed[i])

\* validate_output_directory; writable is what _check_directory_writable
\* finds on the file system
validate_output_directory(allowed, directory, writable) ==
    LET abs_dir == abspath(directory)
    IN IF has_directory_traversal(directory) THEN FALSE
       ELSE IF is_system_directory(abs_dir) THEN FALSE
       ELSE IF ~is_allowed_output_path(allowed, abs_dir) THEN FALSE
       ELSE IF ~writable THEN FALSE
       ELSE TRUE

\* SecurityValidator.__init__
create_validator(paths) == [i \in 1..Len(paths) |-> abspath(paths[i])]

\* path texts
TmpPm == <<"/", "t", "m", "p", "/", "p", "m">>
DotOut == <<".", "/", "o", "u", "t">>
VarPm == <<"/", "v", "a", "r", "/", "p", "m">>

\* the allowed output paths a validator is made with: the pair of the
\* module's own test, one absolute path, and one under a system directory
AllowedPathLists == {<<DotOut, TmpPm>>, <<TmpPm>>, <<VarPm, TmpPm>>}

\* the directories asked about: an allowed path, a directory inside it, a
\* sibling whose name extends it, its parent, relative spellings, a
\* traversal, an encoded separator, system directories
AskedDirectories ==
    {TmpPm,
     TmpPm \o <<"/", "d">>,
     TmpPm \o <<"2">>,
     TmpPm \o <<"/">>,
     <<"/", "t", "m", "p">>,
     <<"o", "u", "t">>,
     DotOut \o <<"/", "d">>,
     <<"o", "u", "t", "e", "r">>,
     TmpPm \o <<"/", ".", ".", "/", "x">>,
     <<".", ".", "/", "h", "/", "o", "u", "t">>,
     TmpPm \o <<"%", "2", "F", "d">>,
     VarPm,
     <<"/", "e", "t", "c", "/", "p", "m">>}

MaxValidations == 2

InitValidator ==
    /\ EngineAtRest
    /\ StoreIdle
    /\ DaemonIdle
    /\ LoaderIdle
    /\ LoopIdle
    /\ \E paths \in AllowedPathLists :
           allowed_output_paths = create_validator(paths)
    /\ validated = <<>>

\* one call of validate_output_directory
Validate ==
    /\ allowed_output_paths # <<>>
    /\ Len(validated) < MaxValidations
    /\ \E directory \in AskedDirectories, writable \in BOOLEAN :
           validated' = Append(validated,
               [directory |-> directory, writable |-> writable,
                result |-> validate_output_directory(allowed_output_paths,
                                                     directory, writable)])
    /\ UNCHANGED <<resolverVars, candle, interval_minutes, bucketVars,
                   runVars, args, storeVars, daemonVars,
                   allowed_output_paths, loaderVars, loopVars>>

NextValidator == Validate

SpecValidator == InitValidator /\ [][NextValidator]_vars

----------------------------------------------------------------------------
(* MemoryAggregator._load_json_files, file by file, while the data        *)
(* directory changes                                                       *)

\* The path of a snapshot file is its name, written as the time in it.
PathsOf(dir) == {f.name : f \in dir}

\* what the body of the for loop does with one path, given the directory as
\* it is at that moment: the exception raised inside the try block ("" for
\* none), whether open() was called, and the record read
file_outcome(file_path, dir, start, end) ==
    IF file_path = <<>>
    THEN [exc |-> "ValueError", opened |-> FALSE, data |-> <<>>]
    ELSE IF ~(DtLeq(start, file_path[1]) /\ DtLeq(file_path[1], end))
    THEN [exc |-> "", opened |-> FALSE, data |-> <<>>]
    ELSE IF file_path \notin PathsOf(dir)
    THEN [exc |-> "FileNotFoundError", opened |-> TRUE, data |-> <<>>]
    ELSE LET f == CHOOSE g \in dir : g.name = file_path
         IN IF f.content = "unreadable"
            THEN [exc |-> "UnicodeDecodeError", opened |-> TRUE,
                  data |-> <<>>]
            ELSE IF f.content # "record"
            THEN [exc |-> "JSONDecodeError", opened |-> TRUE, data |-> <<>>]
            ELSE [exc |-> "", opened |-> TRUE,
                  data |-> <<[timestamp |-> f.timestamp,
                              items |-> f.items]>>]

\* mutant: the clause is "except ValueError", which a missing file escapes
except_ValueError(exc) ==
    exc \in {"ValueError", "UnicodeDecodeError", "JSONDecodeError"}

\* the clause "except Exception": the exceptions it catches
except_Exception(exc) ==
    exc \in {"ValueError", "FileNotFoundError", "UnicodeDecodeError",
             "JSONDecodeError"}

\* line 186: glob.glob lists the directory once, in some order
Glob ==
    /\ pc = "new"
    /\ loader.pc = "idle"
    /\ \E file_paths \in Perms(PathsOf(files)) :
           loader' = [loader EXCEPT !.pc = "loading",
                                    !.file_paths = file_paths]
    /\ UNCHANGED <<resolverVars, candle, interval_minutes, bucketVars,
                   runVars, args, storeVars, daemonVars, validatorVars,
                   churn, loopVars>>

\* lines 188-205: one turn of the for loop
LoadFile ==
    /\ loader.pc = "loading"
    /\ Len(loader.log) < Len(loader.file_paths)
    /\ LET file_path == loader.file_paths[Len(loader.log) + 1]
           out == file_outcome(file_path, files, start_time, end_time)
           caught == out.exc # "" /\ except_Exception(out.exc)
       IN loader' =
            [loader EXCEPT
               !.pc = IF out.exc # "" /\ ~caught THEN "aborted"
                      ELSE "loading",
               !.json_files = loader.json_files \o out.data,
               !.log = Append(loader.log,
                   [file_path |-> file_path, opened |-> out.opened,
                    exc |-> out.exc, warned |-> caught,
                    loaded |-> out.data # <<>>])]
    /\ UNCHANGED <<resolverVars, candle, interval_minutes, bucketVars,
                   runVars, args, storeVars, daemonVars, validatorVars,
                   churn, loopVars>>

\* line 207 and the rest of aggregate_to_candles: the records read are
\* extracted, grouped and made into candles
LoadReturn ==
    /\ loader.pc = "loading"
    /\ Len(loader.log) = Len(loader.file_paths)
    /\ LET ex == extract_process_data(
                     [mapping |-> pid_cmd_mapping, counters |-> pid_counters,
                      process_data |-> <<>>], loader.json_files)
           groups == group_by_time_interval(ex.process_data,
                                            interval_minutes)
       IN /\ raw_data' = loader.json_files
          /\ pid_cmd_mapping' = ex.mapping
          /\ pid_counters' = ex.counters
          /\ process_data' = ex.process_data
          /\ time_groups' = groups
          /\ candle_data' = generate_candles(groups)
    /\ loader' = [loader EXCEPT !.pc = "returned"]
    /\ pc' = "aggregated"
    /\ UNCHANGED <<calls, candle, interval_minutes, bucketVars, files,
                   start_time, end_time, pid_list, table_text, mapping_text,
                   runs, outputs, cliVars, args, storeVars, daemonVars,
                   validatorVars, churn, loopVars>>

\* the snapshot files the sampler saves while the run goes on, in the order
\* it saves them; save_json puts a file under its final name in one step
ArrivingFiles ==
    <<[name |-> <<Dt(Day, 10, 20, 0, 0)>>, content |-> "record",
       timestamp |-> <<Dt(Day, 10, 20, 0, 0)>>, items |-> <<Item42>>],
      [name |-> <<Dt(Day, 10, 25, 0, 0)>>, content |-> "record",
       timestamp |-> <<Dt(Day, 10, 25, 0, 0)>>, items |-> <<Item7>>]>>

\* file_manager.save_json in the sampler process: the next file appears
SamplerAdds ==
    /\ loader.pc = "loading"
    /\ Cardinality(churn.added) < Len(ArrivingFiles)
    /\ LET f == ArrivingFiles[Cardinality(churn.added) + 1]
       IN /\ files' = files \cup {f}
          /\ churn' = [churn EXCEPT !.added = churn.added \cup {f.name}]
    /\ UNCHANGED <<resolverVars, candle, interval_minutes, bucketVars,
                   start_time, end_time, raw_data, process_data, time_groups,
                   candle_data, pid_list, table_text, mapping_text, pc, runs,
                   outputs, cliVars, args, storeVars, daemonVars,
                   validatorVars, loader, loopVars>>

\* file_manager.cleanup_old_files in the sampler process: the oldest file
\* goes, at least one file stays (file_retention_count >= 1); the number of
\* files the loop has been through at that moment is noted
RotationDeletes ==
    /\ loader.pc = "loading"
    /\ Cardinality(files) > 1
    /\ LET f == CHOOSE g \in files :
                    \A h \in files : DtLeq(g.name[1], h.name[1])
       IN /\ files' = files \ {f}
          /\ churn' = [churn EXCEPT !.deleted = churn.deleted \cup
                          {[file_path |-> f.name, at |-> Len(loader.log)]}]
    /\ UNCHANGED <<resolverVars, candle, interval_minutes, bucketVars,
                   start_time, end_time, raw_data, process_data, time_groups,
                   candle_data, pid_list, table_text, mapping_text, pc, runs,
                   outputs, cliVars, args, storeVars, daemonVars,
                   validatorVars, loader, loopVars>>

\* the data directory when the run starts: up to two files, the older one
\* sound or unreadable
StartingFileSets ==
    {a \cup b :
        a \in {{}} \cup {{f} : f \in
                 {[name |-> <<RecoverySlots[1].name>>, content |-> "record",
                   timestamp |-> <<RecoverySlots[1].timestamp>>,
                   items |-> <<Item7>>],
                  [name |-> <<RecoverySlots[1].name>>,
                   content |-> "unreadable",
                   timestamp |-> <<>>, items |-> <<>>]}},
        b \in {{}} \cup {{[name |-> <<RecoverySlots[2].name>>,
                           content |-> "record",
                           timestamp |-> <<RecoverySlots[2].timestamp>>,
                           items |-> <<Item7, Item42>>]}}}

InitConcurrent ==
    InitFiles(StartingFileSets, {DefaultInterval}, RecoveryWindows,
              {DefaultOutput})

NextConcurrent ==
    \/ Glob
    \/ LoadFile
    \/ LoadReturn
    \/ SamplerAdds
    \/ RotationDeletes

\* one aggregation run beside a sampler that saves and rotates
SpecConcurrent == InitConcurrent /\ [][NextConcurrent]_vars

----------------------------------------------------------------------------
(* src/main.py: the main loop, the cleanup worker and the signal handler *)

MaxCycles == 1
MaxSignals == 2
MaxSleep == 2

\* line 126: min(10, collection interval), the interval being 10 at least
error_sleep_time == 10
\* line 191: the worker looks at the clock every 60th turn of its loop; the
\* turns are counted to MaxTurns here
MaxTurns == 2

\* The signal handler runs on the main thread, between two of its steps;
\* daemon.handlers is the stack of the _signal_handler and stop() calls
\* the main thread is in, the innermost last.
MainRuns == daemon.handlers = <<>>
Top == daemon.handlers[Len(daemon.handlers)]
Popped == SubSeq(daemon.handlers, 1, Len(daemon.handlers) - 1)
Retop(pc_) == [daemon.handlers EXCEPT ![Len(daemon.handlers)].pc = pc_]

\* mutant: the sleep loops wait their whole time
sleep_goes_on_regardless(elapsed_sleep, sleep_time, running) ==
    elapsed_sleep < sleep_time

\* lines 113 and 128: the condition of the two sleep loops
sleep_goes_on(elapsed_sleep, sleep_time, running) ==
    elapsed_sleep < sleep_time /\ running

\* FileManager.cleanup_old_files as the worker calls it, in one step: the
\* files left in the directory
cleaned(dir, listing, retention) ==
    LET json_files == get_json_files(listing)
        files_to_delete ==
            IF Len(json_files) <= retention THEN <<>>
            ELSE SliceFrom(json_files, retention)
    IN {f \in dir : \A k \in 1..Len(files_to_delete) :
                        f.filename # files_to_delete[k]}

DaemonRest ==
    <<resolverVars, candle, interval_minutes, bucketVars, runVars, args,
      config, file_retention_count, cleanup, emergency, removed, skipped,
      daemonVars, validatorVars, loaderVars>>

\* line 87: while self.running
MainTest ==
    /\ MainRuns
    /\ daemon.main = "test"
    /\ daemon.running => shutdown.cycles < MaxCycles
    /\ daemon' = [daemon EXCEPT !.main = IF daemon.running THEN "collect"
                                         ELSE "returned"]
    /\ shutdown' =
          IF daemon.running
          THEN [shutdown EXCEPT
                  !.cycles = @ + 1,
                  !.late_cycles = IF shutdown.signals > 0 THEN @ + 1 ELSE @]
          ELSE shutdown
    /\ UNCHANGED <<DaemonRest, snapshots>>

\* lines 89-92: collector.collect() returns or raises
MainCollect ==
    /\ MainRuns
    /\ daemon.main = "collect"
    /\ \E raised \in BOOLEAN :
          daemon' = [daemon EXCEPT
                       !.main = IF raised THEN "error_sleep_test" ELSE "save",
                       !.elapsed_sleep = 0]
    /\ shutdown' = [shutdown EXCEPT
                      !.late_collects = IF shutdown.signals > 0 THEN @ + 1
                                        ELSE @]
    /\ UNCHANGED <<DaemonRest, snapshots>>

\* lines 95-112: with disk space left, save_json puts the snapshot of this
\* cycle into the directory, or raises; the time to sleep is what is left
\* of the interval
MainSave ==
    /\ MainRuns
    /\ daemon.main = "save"
    /\ \/ /\ \E sleep_time \in 0..MaxSleep :
                daemon' = [daemon EXCEPT !.main = "sleep_test",
                                         !.sleep_time = sleep_time,
                                         !.elapsed_sleep = 0]
          /\ snapshots' = snapshots \cup
                 {SnapshotFile(shutdown.cycles, shutdown.cycles)}
       \/ /\ daemon' = [daemon EXCEPT !.main = "error_sleep_test",
                                      !.elapsed_sleep = 0]
          /\ UNCHANGED snapshots
    /\ UNCHANGED <<DaemonRest, shutdown>>

\* line 113: the condition of the interval sleep
MainSleepTest ==
    /\ MainRuns
    /\ daemon.main = "sleep_test"
    /\ \E go \in {sleep_goes_on(daemon.elapsed_sleep, daemon.sleep_time,
                                daemon.running)} :
          /\ daemon' = [daemon EXCEPT !.main = IF go THEN "sleep"
                                               ELSE "test"]
          /\ shutdown' = [shutdown EXCEPT
                            !.late_sleeps =
                                IF go /\ shutdown.signals > 0 THEN @ + 1
                                ELSE @]
    /\ UNCHANGED <<DaemonRest, snapshots>>

\* lines 114-115: one second of the interval sleep
MainSleep ==
    /\ MainRuns
    /\ daemon.main = "sleep"
    /\ daemon' = [daemon EXCEPT !.main = "sleep_test",
                                !.elapsed_sleep = @ + 1]
    /\ UNCHANGED <<DaemonRest, snapshots, shutdown>>

\* line 128: the condition of the sleep before the retry
MainErrorSleepTest ==
    /\ MainRuns
    /\ daemon.main = "error_sleep_test"
    /\ \E go \in {sleep_goes_on(daemon.elapsed_sleep, error_sleep_time,
                                daemon.running)} :
          /\ daemon' = [daemon EXCEPT !.main = IF go THEN "error_sleep"
                                               ELSE "test"]
          /\ shutdown' = [shutdown EXCEPT
                            !.late_sleeps =
                                IF go /\ shutdown.signals > 0 THEN @ + 1
                                ELSE @]
    /\ UNCHANGED <<DaemonRest, snapshots>>

\* lines 129-130: one second of the sleep before the retry
MainErrorSleep ==
    /\ MainRuns
    /\ daemon.main = "error_sleep"
    /\ daemon' = [daemon EXCEPT !.main = "error_sleep_test",
                                !.elapsed_sleep = @ + 1]
    /\ UNCHANGED <<DaemonRest, snapshots, shutdown>>

\* main(), lines 230 and 239-240: run() has returned, the finally clause
\* calls daemon.stop()
MainFinally ==
    /\ MainRuns
    /\ daemon.main = "returned"
    /\ daemon' = [daemon EXCEPT
                    !.main = "finally",
                    !.handlers = <<[call |-> "finally", pc |-> "stop"]>>]
    /\ UNCHANGED <<DaemonRest, snapshots, shutdown>>

\* main() returns
MainExit ==
    /\ MainRuns
    /\ daemon.main = "finally"
    /\ daemon' = [daemon EXCEPT !.main = "exited"]
    /\ UNCHANGED <<DaemonRest, snapshots, shutdown>>

\* SIGTERM or SIGINT arrives: _signal_handler is entered on the main
\* thread, whatever that is doing
Signal ==
    /\ daemon.main # "exited"
    /\ shutdown.signals < MaxSignals
    /\ daemon' = [daemon EXCEPT
                    !.handlers = Append(@, [call |-> "signal",
                                            pc |-> "print"])]
    /\ shutdown' = [shutdown EXCEPT !.signals = @ + 1]
    /\ UNCHANGED <<DaemonRest, snapshots>>

\* _signal_handler, lines 152-155: the message, then self.stop()
HandlerPrint ==
    /\ daemon.handlers # <<>>
    /\ Top.pc = "print"
    /\ daemon' = [daemon EXCEPT !.handlers = Retop("stop")]
    /\ UNCHANGED <<DaemonRest, snapshots, shutdown>>

\* stop(), line 140: if self.running; otherwise stop() returns
StopTest ==
    /\ daemon.handlers # <<>>
    /\ Top.pc = "stop"
    /\ daemon' = [daemon EXCEPT
                    !.handlers = IF daemon.running THEN Retop("stopping")
                                 ELSE Popped]
    /\ UNCHANGED <<DaemonRest, snapshots, shutdown>>

\* stop(), lines 141-142: the message, then self.running = False
StopSet ==
    /\ daemon.handlers # <<>>
    /\ Top.pc = "stopping"
    /\ daemon' = [daemon EXCEPT !.running = FALSE,
                                !.handlers = Retop("join")]
    /\ UNCHANGED <<DaemonRest, snapshots, shutdown>>

\* stop(), lines 145-148: join returns when the worker has ended or after
\* two seconds; stop() returns
StopJoin ==
    /\ daemon.handlers # <<>>
    /\ Top.pc = "join"
    /\ daemon' = [daemon EXCEPT !.handlers = Popped]
    /\ UNCHANGED <<DaemonRest, snapshots, shutdown>>

\* cleanup_worker, line 186: while self.running
WorkerTest ==
    /\ daemon.worker = "test"
    /\ daemon' = [daemon EXCEPT !.worker = IF daemon.running THEN "body"
                                           ELSE "ended"]
    /\ UNCHANGED <<DaemonRest, snapshots, shutdown>>

\* cleanup_worker, lines 188-207: every MaxTurns-th (in the source, 60th)
\* turn the clock is read and,
\* when the cleanup interval has passed, cleanup_old_files is called; an
\* exception raised here is printed (lines 212-216)
WorkerBody ==
    /\ daemon.worker = "body"
    /\ IF daemon.counter + 1 >= MaxTurns
       THEN /\ daemon' = [daemon EXCEPT !.worker = "sleep", !.counter = 0]
            /\ \/ UNCHANGED snapshots
               \/ \E listing \in Perms(snapshots) :
                     snapshots' = cleaned(snapshots, listing,
                                          file_retention_count)
       ELSE /\ daemon' = [daemon EXCEPT !.worker = "sleep",
                                        !.counter = @ + 1]
            /\ UNCHANGED snapshots
    /\ UNCHANGED <<DaemonRest, shutdown>>

\* cleanup_worker, lines 210 and 217: time.sleep(1)
WorkerSleep ==
    /\ daemon.worker = "sleep"
    /\ daemon' = [daemon EXCEPT !.worker = "test"]
    /\ UNCHANGED <<DaemonRest, snapshots, shutdown>>

\* run() has started the cleanup thread and is about to enter its loop; the
\* output directory holds one snapshot of an earlier run
InitDaemon ==
    /\ EngineAtRest
    /\ config = [file_retention_count |-> 1]
    /\ snapshots = {SnapshotFile(0, 0)}
    /\ file_retention_count = config.file_retention_count
    /\ cleanup = [t \in Threads |-> NoCleanup]
    /\ emergency = NoEmergency
    /\ removed = <<>>
    /\ skipped = {}
    /\ DaemonIdle
    /\ ValidatorIdle
    /\ LoaderIdle
    /\ daemon = [NoDaemon EXCEPT !.running = TRUE, !.main = "test",
                                 !.worker = "test"]
    /\ shutdown = NoShutdown

MainStep ==
    \/ MainTest
    \/ MainCollect
    \/ MainSave
    \/ MainSleepTest
    \/ MainSleep
    \/ MainErrorSleepTest
    \/ MainErrorSleep
    \/ MainFinally
    \/ MainExit

HandlerStep ==
    \/ HandlerPrint
    \/ StopTest
    \/ StopSet
    \/ StopJoin

WorkerStep ==
    \/ WorkerTest
    \/ WorkerBody
    \/ WorkerSleep

NextDaemon ==
    \/ MainTest
    \/ MainCollect
    \/ MainSave
    \/ MainSleepTest
    \/ MainSleep
    \/ MainErrorSleepTest
    \/ MainErrorSleep
    \/ MainFinally
    \/ MainExit
    \/ Signal
    \/ HandlerPrint
    \/ StopTest
    \/ StopSet
    \/ StopJoin
    \/ WorkerTest
    \/ WorkerBody
    \/ WorkerSleep

SpecDaemon == InitDaemon /\ [][NextDaemon]_vars

\* Both threads are scheduled again and again, a handler that was entered
\* runs to its end, every sleep and every call returns; when a signal
\* arrives is left open.
SpecDaemonFair ==
    /\ SpecDaemon
    /\ WF_vars(MainStep)
    /\ WF_vars(HandlerStep)
    /\ WF_vars(WorkerStep)

----------------------------------------------------------------------------
(* Claims about the identity resolver (SpecResolver) *)

\* C1: all resolve calls that carry the same (PID, command) pair return the
\* same SeriesKey, whatever was observed for that PID in between.
C1_IdentityStability ==
    \A i, j \in 1..Len(calls) :
        (calls[i].pid = calls[j].pid /\ calls[i].cmd = calls[j].cmd)
            => calls[i].key = calls[j].key

\* C2: a SeriesKey never changes meaning: all resolve calls that returned
\* the same SeriesKey carried the same command.
C2_KeyMeaning ==
    \A i, j \in 1..Len(calls) :
        calls[i].key = calls[j].key => calls[i].cmd = calls[j].cmd

\* call i saw a command different from the one on record for its PID
IsCollision(i) == calls[i].record # <<>> /\ calls[i].record # <<calls[i].cmd>>

\* the number of collisions of call i's PID up to and including call i
CollisionsUpTo(i) ==
    Cardinality({j \in 1..i : calls[j].pid = calls[i].pid /\ IsCollision(j)})

\* C3: the first command observed for a PID resolves to str(pid); the k-th
\* call that sees a command different from the one on record returns
\* "pid(k+1)"; so the suffixes of a PID start at 2, increase strictly and are
\* never reused.
C3_CollisionSuffixing ==
    /\ \A i \in 1..Len(calls) :
          /\ calls[i].record = <<>> => calls[i].key = Str(calls[i].pid)
          /\ IsCollision(i) =>
                calls[i].key = Str(calls[i].pid) \o <<"(">>
                                  \o Str(CollisionsUpTo(i) + 1) \o <<")">>
    /\ \A i, j \in 1..Len(calls) :
          (i < j /\ calls[i].pid = calls[j].pid /\ IsCollision(i)
                 /\ IsCollision(j))
             => calls[i].key # calls[j].key

\* PID 100 was seen with A, then B, then C and resolved to 100, 100(2), 100(3)
C3_Witness ==
    /\ Len(calls) = 3
    /\ [i \in 1..3 |-> <<calls[i].pid, calls[i].cmd>>]
           = <<<<100, "A">>, <<100, "B">>, <<100, "C">>>>
    /\ [i \in 1..3 |-> calls[i].key]
           = <<<<"1", "0", "0">>, <<"1", "0", "0", "(", "2", ")">>,
               <<"1", "0", "0", "(", "3", ")">>>>

----------------------------------------------------------------------------
(* Claims about one candle (SpecCandle) *)

\* C7: after at least one add_data_point call the candle has
\* low <= open <= high and low <= close <= high; after exactly one call
\* open = high = low = close.
C7_OhlcValidity ==
    /\ Len(candle.data_points) >= 1 =>
          /\ candle.low_value <= candle.open_value
          /\ candle.open_value <= candle.high_value
          /\ candle.low_value <= candle.close_value
          /\ candle.close_value <= candle.high_value
    /\ Len(candle.data_points) = 1 =>
          /\ candle.open_value = candle.data_points[1]
          /\ candle.open_value = candle.high_value
          /\ candle.open_value = candle.low_value
          /\ candle.open_value = candle.close_value

\* a candle of three points whose four values are not all equal
C7_Witness ==
    /\ Len(candle.data_points) = 3
    /\ candle.low_value < candle.open_value
    /\ candle.open_value < candle.high_value
    /\ candle.close_value < candle.high_value

----------------------------------------------------------------------------
(* Claims about the time bucketer (SpecBucket) *)

\* C8: for every timestamp and every interval of at least one minute the
\* bucket start is the timestamp with its minute floored to a multiple of
\* the interval and its seconds and microseconds zeroed, the hour and the
\* day unchanged, and the timestamp lies in [start, start + interval); with
\* interval 15 the timestamps 10:03:00, 10:07:00 and 10:14:59 have bucket
\* 10:00:00 and 10:15:00 has bucket 10:15:00.
C8_BucketAlignment ==
    \A i \in 1..Len(bucketed) :
        LET t == bucketed[i].timestamp
            b == bucketed[i].start
        IN /\ b.day = t.day
           /\ b.hour = t.hour
           /\ b.second = 0
           /\ b.microsecond = 0
           /\ b.minute % interval_minutes = 0
           /\ b.minute <= t.minute
           /\ t.minute < b.minute + interval_minutes
           /\ DtLeq(b, t)
           /\ DtSeconds(t) < DtSeconds(b) + interval_minutes * 60
           /\ (interval_minutes = 15 /\ t.hour = 10) =>
                 /\ t \in {Dt(Day, 10, 3, 0, 0), Dt(Day, 10, 14, 59, 0)}
                       => b = Dt(Day, 10, 0, 0, 0)
                 /\ (t.minute = 7 /\ t.second = 0) => b = Dt(Day, 10, 0, 0, 0)
                 /\ (t.minute = 15 /\ t.second = 0) => b = Dt(Day, 10, 15, 0, 0)

\* 10:14:59 and 10:15:00 were bucketed with interval 15
C8_Witness ==
    /\ interval_minutes = 15
    /\ Len(bucketed) = 2
    /\ bucketed[1].timestamp = Dt(Day, 10, 14, 59, 0)
    /\ bucketed[1].start = Dt(Day, 10, 0, 0, 0)
    /\ bucketed[2].timestamp = Dt(Day, 10, 15, 0, 0)
    /\ bucketed[2].start = Dt(Day, 10, 15, 0, 0)

\* C9: for a fixed interval width and timestamps t1 <= t2 the bucket start
\* of t1 is not later than the bucket start of t2, also across an hour
\* boundary and for a width that does not divide 60.
C9_BucketMonotonic ==
    \A i, j \in 1..Len(bucketed) :
        DtLeq(bucketed[i].timestamp, bucketed[j].timestamp)
            => DtLeq(bucketed[i].start, bucketed[j].start)

\* width 7: the last bucket of hour 9 starts at 9:56, the next at 10:00
C9_Witness ==
    /\ interval_minutes = 7
    /\ Len(bucketed) = 2
    /\ bucketed[1].timestamp = Dt(Day, 9, 59, 59, 999999)
    /\ bucketed[1].start = Dt(Day, 9, 56, 0, 0)
    /\ bucketed[2].timestamp = Dt(Day, 10, 0, 0, 0)
    /\ bucketed[2].start = Dt(Day, 10, 0, 0, 0)

----------------------------------------------------------------------------
(* Claims about aggregation runs (Spec, SpecOhlc) *)

\* C4: samples are fed to the identity resolver in chronological order
\* across all snapshot files: of two samples the one with the earlier
\* timestamp is resolved first, whatever order the files are enumerated in.
\* (process_data holds the samples in the order they were resolved.)
C4_ChronologicalResolution ==
    \A i, j \in 1..Len(process_data) :
        i < j => ~DtLess(process_data[j].timestamp, process_data[i].timestamp)

\* C5: runs of aggregate_to_candles and export_to_tsv, each on a fresh
\* aggregator, over the same snapshot set, window and interval write the
\* same table text and the same mapping text, whatever order the files are
\* enumerated in.
C5_Determinism == Cardinality(outputs) <= 1

\* the points of group g with no earlier (no later) point in the group
Earliest(g) ==
    {i \in 1..Len(g.points) : \A j \in 1..Len(g.points) :
        ~DtLess(g.points[j].timestamp, g.points[i].timestamp)}
Latest(g) ==
    {i \in 1..Len(g.points) : \A j \in 1..Len(g.points) :
        ~DtLess(g.points[i].timestamp, g.points[j].timestamp)}

\* the candles of series pid that start at bucket start t
CandlesAt(pid, t) ==
    LET i == IndexOf(candle_data, pid)
    IN IF i = 0 THEN {}
       ELSE {candle_data[i].candles[j] :
                j \in {k \in 1..Len(candle_data[i].candles) :
                          candle_data[i].candles[k].timestamp = t}}

\* C6: for every (bucket, SeriesKey) group, whatever order its samples
\* arrived in, the candle has open = the size of a sample with the earliest
\* timestamp, close = the size of a sample with the latest timestamp,
\* high = the largest and low = the smallest size of the group, unscaled.
C6_CandleValues ==
    pc \in {"aggregated", "exported"} =>
        \A n \in 1..Len(time_groups) :
            LET g == time_groups[n]
                sizes == {g.points[i].rss : i \in 1..Len(g.points)}
            IN /\ Cardinality(CandlesAt(g.key[2], g.key[1])) = 1
               /\ \A c \in CandlesAt(g.key[2], g.key[1]) :
                     /\ c.open_value \in {g.points[i].rss : i \in Earliest(g)}
                     /\ c.close_value \in {g.points[i].rss : i \in Latest(g)}
                     /\ c.high_value \in sizes
                     /\ \A v \in sizes : v <= c.high_value
                     /\ c.low_value \in sizes
                     /\ \A v \in sizes : c.low_value <= v

\* a group of three samples that arrived latest first, with four values
\* that the arrival order would get wrong
C6_Witness ==
    /\ pc = "aggregated"
    /\ \E n \in 1..Len(time_groups) :
          LET g == time_groups[n]
          IN /\ Len(g.points) = 3
             /\ DtLess(g.points[2].timestamp, g.points[1].timestamp)
             /\ DtLess(g.points[3].timestamp, g.points[2].timestamp)
             /\ \E c \in CandlesAt(g.key[2], g.key[1]) :
                   /\ c.open_value = g.points[3].rss
                   /\ c.close_value = g.points[1].rss
                   /\ c.open_value # c.close_value
                   /\ c.low_value < c.high_value

\* the number between the parentheses of a key, 1 for a key without
SuffixOf(key) ==
    IF Contains(key, "(")
    THEN ParseInt(SubSeq(key, Len(SplitFirst(key, "(")) + 2, Len(key) - 1))
    ELSE 1

\* C10: on the series axis the keys are in ascending order of their numeric
\* PID, keys of one PID in suffix order (no suffix, (2), (3), ...), for
\* every order the samples were met in; the axis holds every key once; the
\* keys 42, 42(2), 7 are laid out as 7, 42, 42(2).
C10_SeriesAxisOrder ==
    pc = "exported" =>
        /\ Len(pid_list) = Len(candle_data)
        /\ {pid_list[i] : i \in 1..Len(pid_list)}
              = {candle_data[i].key : i \in 1..Len(candle_data)}
        /\ \A i, j \in 1..Len(pid_list) :
              i < j =>
                 LET a == ParseInt(SplitFirst(pid_list[i], "("))
                     b == ParseInt(SplitFirst(pid_list[j], "("))
                 IN \/ a < b
                    \/ a = b /\ SuffixOf(pid_list[i]) < SuffixOf(pid_list[j])
        /\ {pid_list[i] : i \in 1..Len(pid_list)}
              = {<<"4", "2">>, <<"4", "2", "(", "2", ")">>, <<"7">>}
              => pid_list = <<<<"7">>, <<"4", "2">>,
                              <<"4", "2", "(", "2", ")">>>>

\* the keys were met in the order 42, 42(2), 7 and laid out as 7, 42, 42(2)
C10_Witness ==
    /\ pc = "exported"
    /\ [i \in 1..Len(candle_data) |-> candle_data[i].key]
          = <<<<"4", "2">>, <<"4", "2", "(", "2", ")">>, <<"7">>>>
    /\ pid_list = <<<<"7">>, <<"4", "2">>, <<"4", "2", "(", "2", ")">>>>

----------------------------------------------------------------------------
(* Claims about the exported files (Spec, SpecOhlc) *)

\* the rows of the table and of the mapping as a reader of the files finds
\* them: lines split at the tabs
TableRows ==
    LET lines == Split(table_text, "\n")
    IN [r \in 1..Len(lines) |-> Split(lines[r], "\t")]
MappingRows ==
    LET lines == Split(mapping_text, "\n")
    IN [r \in 1..Len(lines) |-> Split(lines[r], "\t")]

\* the samples resolved for raw PID pid, by their position in process_data
SamplesOfPid(pid) ==
    {n \in 1..Len(process_data) :
        ParseInt(SplitFirst(process_data[n].pid, "(")) = pid}

CandlesOf(key) ==
    UNION {{candle_data[i].candles[j] : j \in 1..Len(candle_data[i].candles)} :
              i \in {n \in 1..Len(candle_data) : candle_data[n].key = key}}
BucketStarts ==
    UNION {{c.timestamp : c \in CandlesOf(candle_data[i].key)} :
              i \in 1..Len(candle_data)}

\* C12: in every data row and for every series the four fields are the
\* open, high, low and close of the series' candle at the row's bucket
\* start, as text, and four empty fields when the series has no candle
\* there; every candle holds at least one sample that fell into its bucket,
\* so a (series, bucket) pair without a sample is neither a candle nor a
\* group of zeros.
C12_SparseCells ==
    /\ pc = "exported" =>
          \A rows \in {TableRows} :
          \A r \in 2..Len(rows) : \A i \in 1..Len(pid_list) :
              LET row == rows[r]
                  at == {c \in CandlesOf(pid_list[i]) :
                            strftime(c.timestamp) = row[1]}
              IN /\ Len(row) >= 4 * i + 1
                 /\ Cardinality(at) <= 1
                 /\ at = {} =>
                       SubSeq(row, 4 * i - 2, 4 * i + 1)
                          = <<<<>>, <<>>, <<>>, <<>>>>
                 /\ \A c \in at :
                       SubSeq(row, 4 * i - 2, 4 * i + 1)
                          = <<Str(c.open_value), Str(c.high_value),
                              Str(c.low_value), Str(c.close_value)>>
    /\ pc \in {"aggregated", "exported"} =>
          \A i \in 1..Len(candle_data) :
              \A c \in CandlesOf(candle_data[i].key) :
                  /\ Len(c.data_points) >= 1
                  /\ \E n \in 1..Len(process_data) :
                        /\ process_data[n].pid = candle_data[i].key
                        /\ interval_start(process_data[n].timestamp,
                                          interval_minutes) = c.timestamp

\* two series and two buckets, each series with a candle in one bucket only
C12_Witness ==
    /\ pc = "exported"
    /\ Len(pid_list) = 2
    /\ Len(TableRows) = 3
    /\ SubSeq(TableRows[2], 2, 9)
          = <<<<"1">>, <<"3">>, <<"1">>, <<"3">>, <<>>, <<>>, <<>>, <<>>>>
    /\ SubSeq(TableRows[3], 2, 9)
          = <<<<>>, <<>>, <<>>, <<>>, <<"2">>, <<"2">>, <<"2">>, <<"2">>>>

\* C13: with k distinct series keys and t distinct bucket starts in the
\* candle set, the table has exactly t + 1 rows, the header included, and
\* every row, the header included, has exactly 4k + 1 tab-separated fields.
C13_PivotShape ==
    pc = "exported" =>
        LET k == Cardinality({candle_data[i].key : i \in 1..Len(candle_data)})
            t == Cardinality(BucketStarts)
        IN \A rows \in {TableRows} :
              /\ Len(rows) = t + 1
              /\ \A r \in 1..Len(rows) : Len(rows[r]) = 4 * k + 1

\* two series, two buckets, and a data row that ends in empty fields
C13_Witness ==
    /\ pc = "exported"
    /\ Len(candle_data) = 2
    /\ Cardinality(BucketStarts) = 2
    /\ Len(TableRows) = 3
    /\ Len(TableRows[2]) = 9
    /\ TableRows[2][9] = <<>>
    /\ TableRows[3][2] = <<>>

\* the first fields of the data rows
RowTimes == [r \in 1..(Len(TableRows) - 1) |-> TableRows[r + 1][1]]

\* C14: the data rows of the table are exactly the distinct bucket starts of
\* the candles of all series, each on one row, in strictly ascending order;
\* the candles of each series are in ascending order of bucket start too.
C14_TimeAxis ==
    /\ pc = "exported" =>
          \A times \in {RowTimes} : \A starts \in {BucketStarts} :
             /\ \A r \in 1..Len(times) :
                   \E t \in starts : strftime(t) = times[r]
             /\ \A t \in starts :
                   Cardinality({r \in 1..Len(times) :
                                   times[r] = strftime(t)}) = 1
             /\ \A r1, r2 \in 1..Len(times) :
                   r1 < r2 =>
                      \E t1, t2 \in starts :
                          /\ strftime(t1) = times[r1]
                          /\ strftime(t2) = times[r2]
                          /\ DtLess(t1, t2)
    /\ pc \in {"aggregated", "exported"} =>
          \A i \in 1..Len(candle_data) :
              \A j \in 1..(Len(candle_data[i].candles) - 1) :
                  DtLess(candle_data[i].candles[j].timestamp,
                         candle_data[i].candles[j + 1].timestamp)

\* the first series has its candle in the later bucket only, the second
\* series in the earlier bucket only; the rows are 10:00 and then 10:15
C14_Witness ==
    /\ pc = "exported"
    /\ Len(candle_data) = 2
    /\ Len(candle_data[1].candles) = 1
    /\ Len(candle_data[2].candles) = 1
    /\ candle_data[1].candles[1].timestamp = Dt(Day, 10, 15, 0, 0)
    /\ candle_data[2].candles[1].timestamp = Dt(Day, 10, 0, 0, 0)
    /\ RowTimes
          = <<strftime(Dt(Day, 10, 0, 0, 0)), strftime(Dt(Day, 10, 15, 0, 0))>>

----------------------------------------------------------------------------
(* Claims about skipped input (SpecRecovery) *)

\* C15: every sample that contributes to a candle has a timestamp inside
\* the requested window [start_time, end_time]; records outside it, and
\* records whose file-name time or embedded timestamp cannot be read,
\* contribute nothing.
C15_WindowOnly ==
    pc \in {"aggregated", "exported"} =>
        /\ \A n \in 1..Len(process_data) :
              /\ DtLeq(start_time, process_data[n].timestamp)
              /\ DtLeq(process_data[n].timestamp, end_time)
        /\ \A n \in 1..Len(process_data) :
              \E f \in files :
                  /\ f.name # <<>>
                  /\ f.timestamp = <<process_data[n].timestamp>>

\* the items of a record that are dicts with a pid
UsableItems(record) ==
    {j \in 1..Len(record.items) :
        IsDict(record.items[j]) /\ "pid" \in DOMAIN record.items[j]}

\* C16: of a loaded record with a readable timestamp every item that is a
\* dict with a pid is resolved and contributes a sample, whatever malformed
\* items stand before or after it in the list; a record that is malformed
\* itself contributes no sample and no entry of the resolver's tables.
C16_ItemRecovery ==
    pc \in {"aggregated", "exported"} =>
        /\ \A n \in 1..Len(raw_data) :
              raw_data[n].timestamp # <<>> =>
                 Cardinality({i \in 1..Len(process_data) :
                     <<process_data[i].timestamp>> = raw_data[n].timestamp})
                    = Cardinality(UsableItems(raw_data[n]))
        /\ \A i \in 1..Len(process_data) :
              \E n \in 1..Len(raw_data) :
                  raw_data[n].timestamp = <<process_data[i].timestamp>>
        /\ DOMAIN pid_cmd_mapping
              = UNION {{raw_data[n].items[j].pid : j \in UsableItems(raw_data[n])} :
                          n \in {m \in 1..Len(raw_data) :
                                    raw_data[m].timestamp # <<>>}}

\* a file fails as a unit: its name or its embedded timestamp cannot be
\* read, or it cannot be opened or parsed
FailingUnit(f) == f.name = <<>> \/ f.content # "record" \/ f.timestamp = <<>>

\* the records of the loaded list whose timestamp can be read
ReadableRecords == SelectSeq(raw_data, LAMBDA r : r.timestamp # <<>>)

\* C17: a file that fails as a unit never aborts the run: the candles and
\* the series keys are those of a run over the same directory without the
\* failing files, enumerated in the same order.
C17_UnitRecovery ==
    pc \in {"aggregated", "exported"} =>
        \E file_paths \in Perms({f \in files : ~FailingUnit(f)}) :
            LET run == aggregate_to_candles(
                           [mapping |-> EmptyDict, counters |-> EmptyDict],
                           file_paths, start_time, end_time, interval_minutes)
            IN /\ run.raw_data = ReadableRecords
               /\ run.candle_data = candle_data
               /\ run.process_data = process_data

\* three files of which two fail (one cannot be opened, one has no
\* readable timestamp and is loaded first), the third gives a candle
C17_Witness ==
    /\ pc = "aggregated"
    /\ Cardinality(files) = 3
    /\ Cardinality({f \in files : FailingUnit(f)}) = 2
    /\ \E f \in files : f.content = "unreadable"
    /\ Len(raw_data) = 2
    /\ raw_data[1].timestamp = <<>>
    /\ Len(ReadableRecords) = 1
    /\ Len(candle_data) = 1

----------------------------------------------------------------------------
(* Claims about a reused aggregator (SpecReuse) *)

\* C19: a second aggregate_to_candles call on the same MemoryAggregator,
\* over the same snapshot files loaded in the same order and the same
\* window, returns the series keys and the candles the first call returned:
\* the resolver's tables of the first call do not influence the second.
C19_FreshState ==
    [][(pc' = "reaggregated" /\ raw_data' = raw_data)
          => candle_data' = candle_data]_vars

----------------------------------------------------------------------------
(* Claims about the command line tool (SpecCli) *)

\* C18: export_to_tsv writes the table to the given path, with .tsv
\* appended exactly when the path does not end in .tsv, and then the
\* mapping to the table's path with that final .tsv replaced by
\* _pid_mapping.tsv, every other part of the path (directories, earlier
\* occurrences of .tsv) kept as it is.
C18_OutputNaming ==
    (pc \in {"exported", "failed", "exited"} /\ Len(candle_data) > 0) =>
        LET table == IF EndsWith(output_file, Tsv) THEN output_file
                     ELSE output_file \o Tsv
            stem == SubSeq(table, 1, Len(table) - Len(Tsv))
        IN written = <<table, stem \o MappingSuffix>>

\* no sample falls in the window: every file whose name lies in the window
\* and that loads to a record with a readable timestamp has no usable item
NoSampleInWindow ==
    \A f \in files :
        (/\ f.name # <<>>
         /\ f.content = "record"
         /\ f.timestamp # <<>>
         /\ DtLeq(start_time, f.name[1])
         /\ DtLeq(f.name[1], end_time))
            => UsableItems(f) = {}

\* C20: when no sample falls in the requested window (no file matches it,
\* or the matching records hold no usable item) the command line tool does
\* not call export_to_tsv and writes no file, and it exits with a warning
\* and exit code 0.
C20_EmptyWindow ==
    NoSampleInWindow =>
        /\ pc \in {"new", "aggregated", "nodata"}
        /\ written = <<>>
        /\ exit_code # <<>> =>
              /\ exit_code = <<0>>
              /\ "warning: no data" \in stderr

\* two files in the window, neither with a usable item: exit code 0 and
\* nothing written
C20_Witness ==
    /\ pc = "nodata"
    /\ Cardinality(files) = 2
    /\ Len(raw_data) = 2
    /\ \E f \in files : f.items = <<NoPidItem>>
    /\ \E f \in files : f.items = <<NotADict>>
    /\ written = <<>>
    /\ exit_code = <<0>>
    /\ stderr = {"warning: no data"}

-----------------------------------------------------------------------------
(* Header row of the table *)

\* the header fields of the series at position i of the axis, and the value
\* fields of the same series in data row r
HeaderOf(rows, i) == SubSeq(rows[1], 4 * i - 2, 4 * i + 1)
ValuesOf(rows, r, i) == SubSeq(rows[r], 4 * i - 2, 4 * i + 1)

\* the values of each data row are in open, high, low, close order
ValueOrder(rows) ==
    \A r \in 2..Len(rows) : \A i \in 1..Len(pid_list) :
        \A c \in CandlesOf(pid_list[i]) :
            strftime(c.timestamp) = rows[r][1] =>
                ValuesOf(rows, r, i)
                    = <<Str(c.open_value), Str(c.high_value),
                        Str(c.low_value), Str(c.close_value)>>

\* C23 as amended: the first line of the table is the column jikan followed,
\* for each series key in series-axis order, by the four columns
\* {key}_hajimene, {key}_takane, {key}_yasune, {key}_owarine in that order
\* (the labels the program writes for time, open, high, low and close), and
\* the values of each data row follow the same open, high, low, close order.
C23_HeaderRow ==
    pc = "exported" =>
        \A rows \in {TableRows} :
            /\ Len(rows[1]) = 4 * Len(pid_list) + 1
            /\ rows[1][1] = <<"jikan">>
            /\ \A i \in 1..Len(pid_list) :
                  HeaderOf(rows, i)
                      = <<pid_list[i] \o <<"_hajimene">>,
                          pid_list[i] \o <<"_takane">>,
                          pid_list[i] \o <<"_yasune">>,
                          pid_list[i] \o <<"_owarine">>>>
            /\ ValueOrder(rows)

\* C23 as stated: the first column is named time and the four columns of a
\* series are named {key}_open, {key}_high, {key}_low, {key}_close.
C23_EnglishHeaderRow ==
    pc = "exported" =>
        \A rows \in {TableRows} :
            /\ Len(rows[1]) = 4 * Len(pid_list) + 1
            /\ rows[1][1] = <<"time">>
            /\ \A i \in 1..Len(pid_list) :
                  HeaderOf(rows, i)
                      = <<pid_list[i] \o <<"_open">>,
                          pid_list[i] \o <<"_high">>,
                          pid_list[i] \o <<"_low">>,
                          pid_list[i] \o <<"_close">>>>
            /\ ValueOrder(rows)

\* a table of two series, the first with a candle whose open and high and
\* whose low and close differ
C23_Witness ==
    /\ pc = "exported"
    /\ Len(pid_list) = 2
    /\ \E r \in 2..Len(TableRows) :
          ValuesOf(TableRows, r, 1) = <<<<"1">>, <<"3">>, <<"1">>, <<"3">>>>
    /\ HeaderOf(TableRows, 2)[1] = pid_list[2] \o <<"_hajimene">>

-----------------------------------------------------------------------------
(* Sample conservation *)

\* how often x occurs in the sequence s
Count(s, x) == Cardinality({i \in 1..Len(s) : s[i] = x})

\* the total length of the sequences in s
RECURSIVE SumOfPoints(_)
SumOfPoints(s) ==
    IF s = <<>> THEN 0 ELSE Len(Head(s)) + SumOfPoints(Tail(s))

\* the data_points of all candles, series by series
AllCandlePoints ==
    Flatten([i \in 1..Len(candle_data) |->
                [j \in 1..Len(candle_data[i].candles) |->
                    candle_data[i].candles[j].data_points]])

\* the bucket start of a sample under the run's interval
BucketOf(p) ==
    [p.timestamp EXCEPT
        !.minute = (p.timestamp.minute \div interval_minutes)
                       * interval_minutes,
        !.second = 0, !.microsecond = 0]

\* C29: every extracted sample is in exactly one (bucket start, series key)
\* group, the one of its own bucket and key; every group yields exactly one
\* candle, whose data_points count is the size of the group; the
\* data_points counts of all candles add up to the number of extracted
\* samples; no series holds two candles with the same bucket start.
C29_SampleConservation ==
    /\ \A g, h \in 1..Len(time_groups) :
          time_groups[g].key = time_groups[h].key => g = h
    /\ \A g \in 1..Len(time_groups) : \A n \in 1..Len(time_groups[g].points) :
          LET p == time_groups[g].points[n]
          IN /\ time_groups[g].key = <<BucketOf(p), p.pid>>
             /\ Count(process_data, p) = Count(time_groups[g].points, p)
    /\ SumOfPoints([g \in 1..Len(time_groups) |-> time_groups[g].points])
          = Len(process_data)
    /\ \A g \in 1..Len(time_groups) :
          LET i == IndexOf(candle_data, time_groups[g].key[2])
              at == {j \in 1..Len(candle_data[i].candles) :
                        candle_data[i].candles[j].timestamp
                            = time_groups[g].key[1]}
          IN /\ i # 0
             /\ Cardinality(at) = 1
             /\ \A j \in at :
                   Len(candle_data[i].candles[j].data_points)
                       = Len(time_groups[g].points)
    /\ Len(AllCandlePoints) = Len(time_groups)
    /\ SumOfPoints(AllCandlePoints) = Len(process_data)
    /\ \A i \in 1..Len(candle_data) :
          \A j, k \in 1..Len(candle_data[i].candles) :
              candle_data[i].candles[j].timestamp
                  = candle_data[i].candles[k].timestamp => j = k

\* three samples, two of one series in one bucket and a third of the same
\* series in another bucket: two groups, two candles of that series
C29_Witness ==
    /\ pc = "aggregated"
    /\ Len(process_data) = 3
    /\ Len(time_groups) = 2
    /\ Len(candle_data) = 1
    /\ Len(candle_data[1].candles) = 2
    /\ Len(candle_data[1].candles[1].data_points) = 2
    /\ Len(candle_data[1].candles[2].data_points) = 1

-----------------------------------------------------------------------------
(* Mapping completeness *)

\* the raw PID of a series key, read off its text
RawPidOf(key) == ParseInt(SplitFirst(key, "("))

\* C30: when the table is exported by the aggregator that produced the
\* candles, every key of the series axis has an entry for its raw PID in
\* pid_cmd_mapping, no row of the mapping file carries the placeholder
\* unknown, and the rows of all keys with one raw PID carry the same command.
C30_MappingComplete ==
    pc = "exported" =>
        \A rows \in {MappingRows} :
            /\ Len(rows) = Len(pid_list) + 1
            /\ \A i \in 1..Len(pid_list) :
                  /\ RawPidOf(pid_list[i]) \in DOMAIN pid_cmd_mapping
                  /\ rows[i + 1][2] # <<"unknown">>
                  /\ rows[i + 1][2] \in {<<c>> : c \in Cmds}
            /\ \A i, j \in 1..Len(pid_list) :
                  RawPidOf(pid_list[i]) = RawPidOf(pid_list[j])
                      => rows[i + 1][2] = rows[j + 1][2]

\* PID 7 carried A and then B, PID 42 carried A: the keys 7 and 7(2) are
\* both listed with B
C30_Witness ==
    /\ pc = "exported"
    /\ MappingRows = << <<<<"PID">>, <<"COMMAND">>>>,
                        <<<<"7">>, <<"B">>>>,
                        <<<<"7", "(", "2", ")">>, <<"B">>>>,
                        <<<<"4", "2">>, <<"A">>>> >>

-----------------------------------------------------------------------------
(* Exit codes of the command line tool (SpecExit) *)

\* the --range texts that are no date and time
BadDateTexts ==
    {<<"x">>, Pad2(Day) \o <<" ", "2", "4", ":", "0", "0", ":", "0", "0">>}

\* the options name an unparseable date
DateError ==
    /\ args.range # <<>>
    /\ args.range[1] \in BadDateTexts \/ args.range[2] \in BadDateTexts

\* the options give a window whose start is not before its end
RangeError ==
    \/ args.hours # <<>> /\ args.hours[1] <= 0
    \/ args.days # <<>> /\ args.days[1] <= 0
    \/ /\ args.range # <<>>
       /\ ~DateError
       /\ args.range[1] = strftime(Dt(Day, 10, 20, 0, 0))
          \/ args.range[1] = args.range[2]

\* C21: the tool ends with 0 on success and on "no data", with 108 for an
\* unparseable --range text, with 110 for a window whose start is not
\* before its end, with 111 when an exception escaped aggregation or export
\* and with 1 when it was interrupted; the exits 108 and 110 happen before
\* an aggregator exists and before any snapshot file is read, and the code
\* the process ends with is the one given to sys.exit.
C21_ExitCodes ==
    exit_code # <<>> =>
        /\ exit_code[1] \in {0, 1, 108, 110, 111}
        /\ "interrupted" \in stderr <=> exit_code = <<1>>
        /\ "interrupted" \notin stderr =>
              /\ DateError <=> exit_code = <<108>>
              /\ RangeError <=> exit_code = <<110>>
              /\ "error" \in stderr <=> exit_code = <<111>>
              /\ ("done" \in stderr \/ "warning: no data" \in stderr)
                     <=> exit_code = <<0>>
        /\ "done" \in stderr =>
              /\ Len(written) = 2
              /\ candle_data # <<>>
        /\ "warning: no data" \in stderr => candle_data = <<>>
        /\ "error" \in stderr =>
              \/ interval_minutes = 0 /\ process_data # <<>>
              \/ ~CanOpen(mapping_file(normalized_output_file(output_file)))
        /\ exit_code[1] \in {108, 110} =>
              /\ runs = 0
              /\ raw_data = <<>>
              /\ process_data = <<>>
              /\ pid_cmd_mapping = EmptyDict
              /\ written = <<>>

\* a run with two snapshot files in the directory whose --range end is not
\* a date: exit code 108, no aggregator created, nothing read or written
C21_Witness ==
    /\ pc = "exited"
    /\ exit_code = <<108>>
    /\ Cardinality(files) = 2
    /\ args.range = <<strftime(Dt(Day, 10, 0, 0, 0)),
                      <<"0", "4", " ", "2", "4", ":", "0", "0", ":",
                        "0", "0">>>>
    /\ runs = 0
    /\ raw_data = <<>>
    /\ stderr = {"error: time range"}

-----------------------------------------------------------------------------
(* Retention (SpecRetention) *)

\* the creation time of a snapshot file of the examined directories
CtimeOf(file_path) ==
    (CHOOSE f \in RetentionFiles : f.filename = file_path).ctime

\* the *.json files in the directory
JsonFilesKept ==
    {f.filename : f \in {g \in snapshots : EndsWith(g.filename, JsonSuffix)}}

\* C25: cleanup_old_files over N snapshot files with retention count R
\* deletes nothing and returns 0 when N <= R; otherwise, when no removal
\* fails, it deletes exactly N - R files, none of them newer than a file it
\* leaves, leaves exactly R, and returns N - R; a removal that fails is
\* skipped and not counted, and the removals after it are still attempted.
C25_Retention ==
    \A c \in {cleanup["worker"]} : c.pc = "returned" =>
        LET N == Len(c.json_files)
            R == file_retention_count
            listed == {c.json_files[k] : k \in 1..N}
            deleted == {removed[i].file_path : i \in 1..Len(removed)}
            failed == {s.file_path : s \in skipped}
        IN /\ Cardinality(listed) = N
           /\ JsonFilesKept = listed \ deleted
           /\ Cardinality(deleted) = Len(removed)
           /\ c.result = <<Cardinality(deleted)>>
           /\ N <= R => deleted = {} /\ failed = {}
           /\ N > R =>
                 /\ Cardinality(deleted \cup failed) = N - R
                 /\ deleted \cap failed = {}
                 /\ \A d \in deleted \cup failed : \A k \in listed :
                       CtimeOf(d) > CtimeOf(k) => k \in deleted \cup failed
                 /\ failed = {} =>
                       /\ c.result = <<N - R>>
                       /\ Cardinality(JsonFilesKept) = R

\* four snapshot files and a retention count of 2: the two oldest are
\* deleted, one of the two files created in the same instant among them
C25_Witness ==
    /\ cleanup["worker"].pc = "returned"
    /\ Len(cleanup["worker"].json_files) = 4
    /\ file_retention_count = 2
    /\ cleanup["worker"].result = <<2>>
    /\ skipped = {}
    /\ SnapshotName(1) \notin JsonFilesKept
    /\ SnapshotName(4) \in JsonFilesKept
    /\ FileInWriting \in snapshots

-----------------------------------------------------------------------------
(* Configured retention under concurrency (SpecEmergency) *)

\* C28: in every interleaving of the main loop's emergency_cleanup with the
\* cleanup worker's periodic cleanup_old_files, the periodic cleanup never
\* deletes a file while at most R snapshot files exist, R being the
\* configured retention count, and file_retention_count equals R whenever
\* emergency_cleanup is not executing.
C28_ConfiguredRetention ==
    /\ \A i \in 1..Len(removed) :
          removed[i].by = "worker"
              => removed[i].count > config.file_retention_count
    /\ emergency.pc # "cleaning"
          => file_retention_count = config.file_retention_count

-----------------------------------------------------------------------------
(* Atomic snapshot save (SpecSave) *)

\* every file under a final snapshot name holds a complete document
FinalFilesComplete ==
    \A f \in snapshots :
        (EndsWith(f.filename, JsonSuffix) /\ ~EndsWith(f.filename, TmpSuffix))
            => f.content = "complete"

\* the temp file of the call in progress is in the directory
TempFilePresent == \E f \in snapshots : f.filename = SaveTempFilepath

\* C24 as stated: at every point of every save_json call a file under a
\* final snapshot name holds a complete document; if any step fails, the
\* temp file is removed and the call has created no final file when the
\* exception reaches the caller.
C24_AtomicSave ==
    /\ FinalFilesComplete
    /\ save.pc = "raised" => ~TempFilePresent /\ ~save.renamed

\* C24 as amended: at every point of every save_json call a file under a
\* final snapshot name holds a complete document; if a step up to and
\* including the rename fails, the call has created no final file and the
\* temp file is removed unless its removal is refused, which is ignored; if
\* a step after the rename fails, the final file has been created; in both
\* cases the exception reaches the caller.
C24_AtomicSaveUntilRename ==
    /\ FinalFilesComplete
    /\ save.failed_at # "" => save.pc \in {"except", "raised"}
    /\ save.pc = "raised" =>
          /\ save.failed_at # "renamed" => ~save.renamed
          /\ save.failed_at = "renamed" =>
                /\ save.renamed
                /\ ~TempFilePresent
          /\ ~save.refused => ~TempFilePresent

\* the first save_json call failed while json.dump was writing: the temp
\* file is gone and no file of second 5 exists
C24_Witness ==
    /\ save.pc = "raised"
    /\ save.calls = 1
    /\ save.failed_at = "dumping"
    /\ save.second = 5
    /\ ~save.refused
    /\ \A f \in snapshots : f.filename \notin {SaveFilepath, SaveTempFilepath}

----------------------------------------------------------------------------
(* Output-path containment (SpecValidator) *)

\* the components of an absolute path
Components(abs_path) == NormComps(Split(abs_path, "/"), <<>>, 1)

\* abs_path is the directory allowed_path or lies inside it
InsideOrEqual(abs_path, allowed_path) ==
    LET a == Components(allowed_path)
        d == Components(abs_path)
    IN Len(a) <= Len(d) /\ SubSeq(d, 1, Len(a)) = a

\* abs_path shares a string prefix with an allowed path without being it
\* or lying inside it
SharesPrefixOnly(abs_path) ==
    /\ \E i \in 1..Len(allowed_output_paths) :
           StartsWith(abs_path, allowed_output_paths[i])
    /\ \A i \in 1..Len(allowed_output_paths) :
           ~InsideOrEqual(abs_path, allowed_output_paths[i])

\* C27: validate_output_directory returns True only for a directory that is
\* one of the allowed output paths or a path-component descendant of one,
\* that contains no ".." and that is not under a system directory; a
\* directory that only shares a string prefix with an allowed path is
\* rejected.
C27_Containment ==
    \A k \in 1..Len(validated) :
        LET abs_dir == abspath(validated[k].directory)
        IN /\ validated[k].result =>
                 /\ \E i \in 1..Len(allowed_output_paths) :
                        InsideOrEqual(abs_dir, allowed_output_paths[i])
                 /\ ~Occurs(<<".", ".">>, validated[k].directory)
                 /\ \A sys_dir \in SYSTEM_DIRECTORIES :
                        ~InsideOrEqual(abs_dir, sys_dir)
           /\ SharesPrefixOnly(abs_dir) => ~validated[k].result

----------------------------------------------------------------------------
(* A data directory that changes during the run (SpecConcurrent) *)

\* the paths the enumeration returned
Enumerated == {loader.file_paths[i] : i \in 1..Len(loader.file_paths)}

InWindow(file_path) ==
    /\ file_path # <<>>
    /\ DtLeq(start_time, file_path[1])
    /\ DtLeq(file_path[1], end_time)

\* the k-th path of the enumeration was deleted before the loop came to it
DeletedBeforeTurn(k) ==
    \E d \in churn.deleted :
        d.file_path = loader.file_paths[k] /\ d.at < k

\* C22: while the sampler adds snapshot files and rotation deletes them,
\* the run never aborts; it opens only files the one enumeration returned,
\* in that order; a file of the window that was deleted between the
\* enumeration and its turn is passed over with a warning and the loop goes
\* on; a file created after the enumeration is not opened, and no record
\* of it is in what the run read.
C22_ChangingDataSet ==
    /\ loader.pc # "aborted"
    /\ Len(loader.log) <= Len(loader.file_paths)
    /\ \A k \in 1..Len(loader.log) :
          /\ loader.log[k].file_path = loader.file_paths[k]
          /\ loader.log[k].opened => loader.log[k].file_path \in Enumerated
          /\ DeletedBeforeTurn(k) /\ InWindow(loader.file_paths[k]) =>
                /\ loader.log[k].opened
                /\ loader.log[k].warned
                /\ ~loader.log[k].loaded
          /\ loader.log[k].file_path \notin churn.added
    /\ Len(loader.json_files)
          = Cardinality({k \in 1..Len(loader.log) : loader.log[k].loaded})
    /\ \A i \in 1..Len(loader.json_files) :
          loader.json_files[i].timestamp \notin churn.added
    /\ pc = "aggregated" =>
          /\ loader.pc = "returned"
          /\ Len(loader.log) = Len(loader.file_paths)
          /\ raw_data = loader.json_files

\* a run that returned although the first file of its enumeration, a file
\* of the window, had been deleted before it was opened, and although a
\* file of the window was saved during the run: one warning, the other
\* enumerated file read, the new file not read
C22_Witness ==
    /\ pc = "aggregated"
    /\ Len(loader.file_paths) = 2
    /\ DeletedBeforeTurn(1)
    /\ InWindow(loader.file_paths[1])
    /\ loader.log[1].warned
    /\ loader.log[2].loaded
    /\ churn.added # {}
    /\ \E f \in files : f.name \in churn.added /\ InWindow(f.name)
    /\ Len(raw_data) = 1

----------------------------------------------------------------------------
(* Daemon shutdown (SpecDaemonFair) *)

\* run() has left its main loop
MainLoopEnded == daemon.main \in {"returned", "finally", "exited"}

\* a step in which a stop() call that finds running false comes to its end
StopWithoutEffect ==
    /\ daemon.handlers # <<>>
    /\ Top.pc = "stop"
    /\ ~daemon.running
    /\ Len(daemon'.handlers) < Len(daemon.handlers)

\* C26: once SIGTERM or SIGINT has been delivered, running becomes false
\* and stays false; no turn of the main loop is begun any more, so that at
\* most the collect of the turn already begun still runs; neither sleep
\* loop begins another second of sleep; the main loop and the cleanup
\* worker both come to their end; and a stop() call that finds running
\* false returns without changing anything.
C26_Shutdown ==
    /\ [](/\ shutdown.late_cycles = 0
          /\ shutdown.late_collects <= 1
          /\ shutdown.late_sleeps = 0)
    /\ [][~daemon.running => ~daemon'.running]_vars
    /\ [][StopWithoutEffect =>
             /\ daemon' = [daemon EXCEPT !.handlers = Popped]
             /\ snapshots' = snapshots
             /\ shutdown' = shutdown]_vars
    /\ (shutdown.signals > 0) ~> ~daemon.running
    /\ (shutdown.signals > 0) ~> (MainLoopEnded /\ daemon.worker = "ended")

\* two signals were delivered, the second after running was false; the
\* main loop, one second into an interval sleep of two, has left the sleep
\* and stands before its loop test, the worker has ended
C26_Witness ==
    /\ shutdown.signals = 2
    /\ ~daemon.running
    /\ daemon.handlers = <<>>
    /\ daemon.main = "test"
    /\ daemon.sleep_time = 2
    /\ daemon.elapsed_sleep = 1
    /\ daemon.worker = "ended"
    /\ \E f \in snapshots : f.filename = SnapshotName(1)

====
